---- MODULE Spec2Model ----
(***************************************************************************)
(* Model of the Baserow synchronisation engine of upwork_scraper            *)
(* (src/data/baserow.py): the store client with its retry wrapper and       *)
(* pagination, and upload_multiple_rows with its deduplication check.       *)
(*                                                                          *)
(* Two specifications share the variables:                                  *)
(*   Spec        upload_multiple_rows, called twice with the same batch,    *)
(*               one store call per step (every await is a step);           *)
(*   SpecClient  one client operation (get_all_rows, get_row, add_row,      *)
(*               update_row, delete_row), one HTTP attempt per step.        *)
(***************************************************************************)
EXTENDS Integers, Sequences, FiniteSets, TLC

(***************************************************************************)
(* Bounds of the model.                                                     *)
(***************************************************************************)
MaxStore == 2        \* rows in the store when upload is first called
MaxBatch == 2        \* records in an upload batch
MaxRows == 201       \* rows in the table a client operation runs against
MaxRetries == 4      \* largest max_retries a client is constructed with
MaxDupRows == 3      \* rows in the table find_duplicates runs against

\* test_baserow_service uploads the same batch twice in a row
UploadCalls == 2

(***************************************************************************)
(* Python values.  A string is a sequence of one-character strings, so that *)
(* int() and str() are computed and not assumed.                            *)
(***************************************************************************)
PyNone == [k |-> "none"]
PyIntV(n) == [k |-> "int", n |-> n]
PyStrV(s) == [k |-> "str", s |-> s]
PyList(items) == [k |-> "list", items |-> items]

Digits == <<"0", "1", "2", "3", "4", "5", "6", "7", "8", "9">>

IsDigit(c) == \E i \in 1..10 : Digits[i] = c

DigitVal(c) == (CHOOSE i \in 1..10 : Digits[i] = c) - 1

\* str.strip(): int() ignores surrounding whitespace
RECURSIVE LStrip(_)
LStrip(s) == IF s # <<>> /\ Head(s) = " " THEN LStrip(Tail(s)) ELSE s

RECURSIVE RStrip(_)
RStrip(s) ==
    IF s # <<>> /\ s[Len(s)] = " " THEN RStrip(SubSeq(s, 1, Len(s) - 1)) ELSE s

RECURSIVE DigitsValue(_, _)
DigitsValue(s, acc) ==
    IF s = <<>> THEN acc ELSE DigitsValue(Tail(s), 10 * acc + DigitVal(Head(s)))

\* int(<str>): optional sign, then one or more decimal digits
PyIntOfStr(s) ==
    LET t == RStrip(LStrip(s))
        signed == t # <<>> /\ Head(t) \in {"-", "+"}
        body == IF signed THEN Tail(t) ELSE t
    IN  IF body # <<>> /\ \A i \in 1..Len(body) : IsDigit(body[i])
        THEN [ok |-> TRUE,
              n |-> IF signed /\ Head(t) = "-"
                    THEN 0 - DigitsValue(body, 0) ELSE DigitsValue(body, 0)]
        ELSE [ok |-> FALSE, exc |-> "ValueError"]

\* int(v): ValueError for a non-numeric string, TypeError for None or a list
PyInt(v) ==
    CASE v.k = "int" -> [ok |-> TRUE, n |-> v.n]
      [] v.k = "str" -> PyIntOfStr(v.s)
      [] OTHER -> [ok |-> FALSE, exc |-> "TypeError"]

RECURSIVE NatDigits(_)
NatDigits(n) ==
    IF n < 10 THEN <<Digits[n + 1]>> ELSE NatDigits(n \div 10) \o <<Digits[(n % 10) + 1]>>

RECURSIVE ReprItems(_)
ReprItems(items) ==
    IF items = <<>> THEN <<>>
    ELSE <<"'">> \o Head(items) \o <<"'">>
         \o (IF Len(items) > 1 THEN <<",", " ">> ELSE <<>>) \o ReprItems(Tail(items))

\* str(v), as a sequence of characters
PyStr(v) ==
    CASE v.k = "int" -> IF v.n < 0 THEN <<"-">> \o NatDigits(0 - v.n) ELSE NatDigits(v.n)
      [] v.k = "str" -> v.s
      [] v.k = "none" -> <<"N", "o", "n", "e">>
      [] v.k = "list" -> <<"[">> \o ReprItems(v.items) \o <<"]">>

\* dict.get(key, default)
Get(row, key, default) == IF key \in DOMAIN row THEN row[key] ELSE default


(***************************************************************************)
(* State.                                                                   *)
(***************************************************************************)
VARIABLES
    store,          \* the table on the server: sequence of rows in id order
    nextId,         \* the id the server gives the next created row
    schema,         \* how the table's columns hold values: "as_sent" | "text"
    rows,           \* upload_multiple_rows: the batch (argument rows)
    deduplicate,    \* upload_multiple_rows: argument deduplicate
    existing_rows,  \* upload_multiple_rows: the snapshot
    created_rows,   \* upload_multiple_rows: rows created so far
    idx,            \* upload_multiple_rows: position of the for loop in rows
    pc,             \* "init" | "fetch" | "loop" | "done"
    callNo,         \* number of upload calls started
    results,        \* return values of the finished calls, in call order
    store0,         \* history: the store when the current call started
    calls,          \* history: the store calls the current call issued
    decisions,      \* history: per processed record, "skip" | "create"
    failed,         \* history: some store call failed, in this call or before
    max_retries,    \* BaserowService.max_retries
    retry_delay,    \* BaserowService.retry_delay, in seconds
    op,             \* the client operation running: its name and arguments
    opc,            \* "idle" | "running" | "done"
    ret,            \* the value the client operation returned
    page,           \* get_all_rows: page
    all_rows,       \* get_all_rows: all_rows
    requested,      \* history: the page parameters get_all_rows sent
    responses,      \* history: the page responses get_all_rows received
    req,            \* _request_with_retry: the request (method, row_id, data, params)
    attempts,       \* _request_with_retry: attempts
    last_exception, \* _request_with_retry: last_exception
    rpc,            \* _request_with_retry: "idle" | "try" | "returned" | "raised"
    response,       \* _request_with_retry: the response returned
    exc,            \* _request_with_retry: the exception raised
    attemptLog,     \* history: outcome of each attempt of the current request
    sleeps,         \* history: the backoff delays slept in the current request
    duplicates,     \* a maintenance pass: the groups found, or still to process
    todo,           \* a maintenance pass: the rows it has still to process
    deleted_count,  \* a maintenance pass: deleted_count
    suspended       \* the upload calls of other pipeline runs: their local state

uvars == <<rows, deduplicate, existing_rows, created_rows, idx, pc, callNo,
           results, store0, calls, decisions, failed>>
svars == <<store, nextId, schema>>
cfgvars == <<max_retries, retry_delay>>
ovars == <<op, opc, ret>>
lvars == <<page, all_rows, requested, responses>>
rvars == <<req, attempts, last_exception, rpc, response, exc, attemptLog, sleeps>>
mvars == <<duplicates, todo, deleted_count>>
cvars == <<cfgvars, suspended, mvars, ovars, lvars, rvars>>

(***************************************************************************)
(* The table on the server (spec section 6: results, next, created row).    *)
(***************************************************************************)
Columns == {"job_uid", "skills"}

\* What a column holds for a posted value: the value itself, or, in a text
\* column, its text; a column the request leaves out reads back as null.
ServerStored(sch, data) ==
    IF sch = "as_sent" THEN data
    ELSE [c \in Columns |->
            IF c \in DOMAIN data /\ data[c].k # "none"
            THEN PyStrV(PyStr(data[c])) ELSE PyNone]

\* POST: the created row, with the id the server assigns
ServerCreated(sch, nid, data) == [id |-> nid] @@ ServerStored(sch, data)

(***************************************************************************)
(* The server's answers (spec section 6).  A list request returns one page  *)
(* of rows in id order and whether a next page exists; a request for a row  *)
(* the table does not hold is answered 404.                                 *)
(***************************************************************************)
Methods == {"GET", "POST", "PATCH", "DELETE"}

RowIds(st) == {st[k].id : k \in 1..Len(st)}

Min(a, b) == IF a < b THEN a ELSE b

PageResults(st, p, size) == SubSeq(st, (p - 1) * size + 1, Min(p * size, Len(st)))

PageHasNext(st, p, size) == p * size < Len(st)

ServerAccepts(st, r) ==
    CASE r.method = "POST" -> TRUE
      [] r.row_id = 0 -> r.params.page = 1 \/ (r.params.page - 1) * r.params.size < Len(st)
      [] OTHER -> r.row_id \in RowIds(st)

RowById(st, rid) == st[CHOOSE k \in 1..Len(st) : st[k].id = rid]

\* PATCH: the fields of the request replace those of the row
Patched(sch, row, data) ==
    LET new == ServerStored(sch, data)
    IN  [f \in DOMAIN row \cup DOMAIN data |->
            IF f \in DOMAIN data THEN new[f] ELSE row[f]]

ServerResponse(st, sch, nid, r) ==
    CASE r.method = "POST" -> [status |-> 200, json |-> ServerCreated(sch, nid, r.data)]
      [] r.method = "GET" /\ r.row_id = 0 ->
            [status |-> 200,
             json |-> [results |-> PageResults(st, r.params.page, r.params.size),
                       next |-> PageHasNext(st, r.params.page, r.params.size)]]
      [] r.method = "GET" -> [status |-> 200, json |-> RowById(st, r.row_id)]
      [] r.method = "PATCH" ->
            [status |-> 200, json |-> Patched(sch, RowById(st, r.row_id), r.data)]
      [] r.method = "DELETE" -> [status |-> 204]

ServerApply(st, sch, nid, r) ==
    CASE r.method = "POST" -> Append(st, ServerCreated(sch, nid, r.data))
      [] r.method = "PATCH" ->
            [k \in 1..Len(st) |->
                IF st[k].id = r.row_id THEN Patched(sch, st[k], r.data) ELSE st[k]]
      [] r.method = "DELETE" -> SelectSeq(st, LAMBDA row : row.id # r.row_id)
      [] OTHER -> st

(***************************************************************************)
(* _request_with_retry, one attempt per step.  The exception of an attempt  *)
(* carries the attempt's number, so that two attempts never raise the same  *)
(* exception object.                                                        *)
(***************************************************************************)
NoException == [type |-> "None", attempt |-> 0]

\* the call: attempts = 0, last_exception = None
request_with_retry_begins(r) ==
    /\ req' = r
    /\ attempts' = 0
    /\ last_exception' = NoException
    /\ rpc' = "try"
    /\ attemptLog' = <<>>
    /\ sleeps' = <<>>
    /\ UNCHANGED <<response, exc>>

ExceptionType(st, r) ==
    CASE r.method \notin Methods -> "ValueError"
      [] ~ServerAccepts(st, r) -> "HTTPError"
      [] OTHER -> "ConnectionError"

\* backoff_delay with the exponent off by one
backoff_delay_doubled(delay, n) == delay * (2 ^ n)

backoff_delay(delay, n) == delay * (2 ^ (n - 1))

\* an attempt whose request is answered: the response is returned.  A request
\* that fails leaves the table as it was.
request_attempt_returns ==
    /\ rpc = "try"
    /\ attempts < max_retries
    /\ req.method \in Methods
    /\ ServerAccepts(store, req)
    /\ response' = ServerResponse(store, schema, nextId, req)
    /\ store' = ServerApply(store, schema, nextId, req)
    /\ nextId' = IF req.method = "POST" THEN nextId + 1 ELSE nextId
    /\ attemptLog' = Append(attemptLog,
            [ok |-> TRUE, response |-> ServerResponse(store, schema, nextId, req)])
    /\ rpc' = "returned"
    /\ UNCHANGED <<req, attempts, last_exception, exc, sleeps>>
    /\ UNCHANGED <<schema, cfgvars, suspended, mvars, ovars, lvars, uvars>>

\* an attempt that raises (the network, an error status, an unsupported
\* method): it is counted and, unless it was the last, followed by a sleep
request_attempt_raises ==
    /\ rpc = "try"
    /\ attempts < max_retries
    /\ LET e == [type |-> ExceptionType(store, req), attempt |-> attempts + 1]
       IN  /\ attempts' = attempts + 1
           /\ last_exception' = e
           /\ attemptLog' = Append(attemptLog, [ok |-> FALSE, e |-> e])
           /\ sleeps' = IF attempts + 1 < max_retries
                        THEN Append(sleeps, backoff_delay(retry_delay, attempts + 1))
                        ELSE sleeps
    /\ UNCHANGED <<req, rpc, response, exc>>
    /\ UNCHANGED <<svars, cfgvars, suspended, mvars, ovars, lvars, uvars>>

\* raised_exception keeping the first exception instead of the last
raised_exception_first(last) ==
    IF last = NoException THEN [type |-> "TypeError", attempt |-> 0]
    ELSE [last EXCEPT !.attempt = 1]

\* raise last_exception; raising None is a TypeError
raised_exception(last) ==
    IF last = NoException THEN [type |-> "TypeError", attempt |-> 0] ELSE last

request_exhausted ==
    /\ rpc = "try"
    /\ attempts >= max_retries
    /\ exc' = raised_exception(last_exception)
    /\ rpc' = "raised"
    /\ UNCHANGED <<req, attempts, last_exception, response, attemptLog, sleeps>>
    /\ UNCHANGED <<svars, cfgvars, suspended, mvars, ovars, lvars, uvars>>

(***************************************************************************)
(* The client operations.                                                   *)
(***************************************************************************)
size == 100

PageRequest(p) ==
    [method |-> "GET", row_id |-> 0, params |-> [page |-> p, size |-> size]]

\* the operations a caller starts, with their arguments
Operations(st) ==
    {[name |-> "_request_with_retry", method |-> m] : m \in Methods \cup {"PUT"}}
      \cup {[name |-> "get_all_rows"]}
      \cup {[name |-> n, row_id |-> i] :
                n \in {"get_row", "delete_row"}, i \in {1, Len(st) + 1}}
      \cup {[name |-> "update_row", row_id |-> i,
             data |-> [job_uid |-> PyIntV(7)]] : i \in {1, Len(st) + 1}}
      \cup {[name |-> "add_row", data |-> [job_uid |-> PyIntV(7)]]}

client_call ==
    /\ opc = "idle"
    /\ \E o \in Operations(store) :
        /\ op' = o
        /\ CASE o.name = "_request_with_retry" ->
                    /\ request_with_retry_begins(
                          [method |-> o.method, row_id |-> 1,
                           data |-> [job_uid |-> PyIntV(7)]])
                    /\ UNCHANGED lvars
             [] o.name = "get_all_rows" ->
                    /\ page' = 1
                    /\ all_rows' = <<>>
                    /\ requested' = <<PageRequest(1).params>>
                    /\ responses' = <<>>
                    /\ request_with_retry_begins(PageRequest(1))
             [] o.name = "get_row" ->
                    /\ request_with_retry_begins([method |-> "GET", row_id |-> o.row_id])
                    /\ UNCHANGED lvars
             [] o.name = "add_row" ->
                    /\ request_with_retry_begins(
                          [method |-> "POST", row_id |-> 0, data |-> o.data])
                    /\ UNCHANGED lvars
             [] o.name = "update_row" ->
                    /\ request_with_retry_begins(
                          [method |-> "PATCH", row_id |-> o.row_id, data |-> o.data])
                    /\ UNCHANGED lvars
             [] o.name = "delete_row" ->
                    /\ request_with_retry_begins([method |-> "DELETE", row_id |-> o.row_id])
                    /\ UNCHANGED lvars
    /\ opc' = "running"
    /\ UNCHANGED <<ret, svars, cfgvars, suspended, mvars, uvars>>

\* the operation returns v
Returns(v) ==
    /\ ret' = v
    /\ opc' = "done"
    /\ UNCHANGED <<op, rvars, svars, cfgvars, suspended, mvars, uvars>>

\* get_all_rows: a page with results and a next page: extend and go on
get_all_rows_next_page ==
    /\ opc = "running" /\ op.name = "get_all_rows" /\ rpc = "returned"
    /\ response.json.results # <<>>
    /\ response.json.next
    /\ all_rows' = all_rows \o response.json.results
    /\ page' = page + 1
    /\ requested' = Append(requested, PageRequest(page + 1).params)
    /\ responses' = Append(responses, response.json)
    /\ request_with_retry_begins(PageRequest(page + 1))
    /\ UNCHANGED <<ovars, svars, cfgvars, suspended, mvars, uvars>>

\* get_all_rows_return with the next-page test made before the extend: the
\* last page is dropped
get_all_rows_return_drops_page ==
    /\ opc = "running" /\ op.name = "get_all_rows" /\ rpc = "returned"
    /\ response.json.results = <<>> \/ ~response.json.next
    /\ all_rows' = all_rows
    /\ responses' = Append(responses, response.json)
    /\ Returns([kind |-> "list", val |-> all_rows])
    /\ UNCHANGED <<page, requested>>

\* get_all_rows: an empty page, or a page without a next page: return
get_all_rows_return ==
    /\ opc = "running" /\ op.name = "get_all_rows" /\ rpc = "returned"
    /\ response.json.results = <<>> \/ ~response.json.next
    /\ all_rows' = all_rows \o response.json.results
    /\ responses' = Append(responses, response.json)
    /\ Returns([kind |-> "list", val |-> all_rows \o response.json.results])
    /\ UNCHANGED <<page, requested>>

\* get_all_rows_except never reached: the loop waits on the failed page
get_all_rows_except_hangs ==
    /\ opc = "running" /\ op.name = "get_all_rows" /\ rpc = "raised"
    /\ UNCHANGED <<ovars, lvars, rvars, svars, cfgvars, suspended, mvars, uvars>>

\* get_all_rows: except Exception: return []
get_all_rows_except ==
    /\ opc = "running" /\ op.name = "get_all_rows" /\ rpc = "raised"
    /\ Returns([kind |-> "list", val |-> <<>>])
    /\ UNCHANGED lvars

\* get_row, add_row, update_row: return response.json()
row_operation_return ==
    /\ opc = "running" /\ op.name \in {"get_row", "add_row", "update_row"}
    /\ rpc = "returned"
    /\ Returns([kind |-> "row", val |-> response.json])
    /\ UNCHANGED lvars

\* get_row, add_row, update_row: except Exception: return None
row_operation_except ==
    /\ opc = "running" /\ op.name \in {"get_row", "add_row", "update_row"}
    /\ rpc = "raised"
    /\ Returns([kind |-> "none"])
    /\ UNCHANGED lvars

delete_row_return ==
    /\ opc = "running" /\ op.name = "delete_row" /\ rpc = "returned"
    /\ Returns([kind |-> "bool", val |-> TRUE])
    /\ UNCHANGED lvars

delete_row_except ==
    /\ opc = "running" /\ op.name = "delete_row" /\ rpc = "raised"
    /\ Returns([kind |-> "bool", val |-> FALSE])
    /\ UNCHANGED lvars

\* a direct call of _request_with_retry ends with its response or exception
request_with_retry_ends ==
    /\ opc = "running" /\ op.name = "_request_with_retry"
    /\ rpc \in {"returned", "raised"}
    /\ Returns(IF rpc = "returned" THEN [kind |-> "response", val |-> response]
               ELSE [kind |-> "exception", val |-> exc])
    /\ UNCHANGED lvars

(***************************************************************************)
(* get_all_rows as its callers see it: every row of the table when all page *)
(* requests succeed, the empty list when one of them raised.                *)
(***************************************************************************)
get_all_rows(st, ok) == IF ok THEN st ELSE <<>>

(***************************************************************************)
(* upload_multiple_rows.                                                    *)
(***************************************************************************)
deduplication_field == "job_uid"

\* RowsMatch with the except block dropped: a failed int() is no match
RowsMatch_NoFallback(existing_row, row) ==
    LET existing_value == PyInt(Get(existing_row, deduplication_field, PyIntV(0)))
        new_value == PyInt(Get(row, deduplication_field, PyIntV(0)))
    IN  existing_value.ok /\ new_value.ok /\ existing_value.n = new_value.n

\* RowsMatch with the try block dropped: string comparison only
RowsMatch_StrOnly(existing_row, row) ==
    PyStr(Get(existing_row, deduplication_field, PyNone))
        = PyStr(Get(row, deduplication_field, PyNone))

\* One pass of the inner loop: the try block, then the except block.
RowsMatch(existing_row, row) ==
    LET existing_value == PyInt(Get(existing_row, deduplication_field, PyIntV(0)))
        new_value == PyInt(Get(row, deduplication_field, PyIntV(0)))
    IN  IF existing_value.ok /\ new_value.ok
        THEN existing_value.n = new_value.n
        ELSE PyStr(Get(existing_row, deduplication_field, PyNone))
                 = PyStr(Get(row, deduplication_field, PyNone))

is_duplicate(dedup, snapshot, row) ==
    /\ dedup
    /\ snapshot # <<>>
    /\ \E j \in 1..Len(snapshot) : RowsMatch(snapshot[j], row)

\* nested data (dict, list) is sent as its string form
processed_row(row) ==
    [key \in DOMAIN row |->
        IF row[key].k = "list" THEN PyStrV(PyStr(row[key])) ELSE row[key]]

upload_multiple_rows_call ==
    /\ UNCHANGED cvars
    /\ pc \in {"init", "done"}
    /\ callNo < UploadCalls
    /\ callNo' = callNo + 1
    /\ created_rows' = <<>>
    /\ existing_rows' = <<>>
    /\ idx' = 1
    /\ store0' = store
    /\ calls' = <<>>
    /\ decisions' = <<>>
    /\ IF rows = <<>>
       THEN pc' = "done" /\ results' = Append(results, <<>>)
       ELSE pc' = (IF deduplicate THEN "fetch" ELSE "loop") /\ results' = results
    /\ UNCHANGED <<rows, deduplicate, failed, svars>>

\* upload_fetch_existing ending the call when the listing failed
upload_fetch_existing_stops ==
    /\ UNCHANGED cvars
    /\ pc = "fetch"
    /\ \E ok \in BOOLEAN :
        /\ existing_rows' = get_all_rows(store, ok)
        /\ calls' = Append(calls, [op |-> "list", ok |-> ok])
        /\ failed' = (failed \/ ~ok)
        /\ IF ok THEN pc' = "loop" /\ results' = results
           ELSE pc' = "done" /\ results' = Append(results, <<>>)
    /\ UNCHANGED <<rows, deduplicate, created_rows, idx, callNo, store0,
                   decisions, svars>>

upload_fetch_existing ==
    /\ UNCHANGED cvars
    /\ pc = "fetch"
    /\ \E ok \in BOOLEAN :
        /\ existing_rows' = get_all_rows(store, ok)
        /\ calls' = Append(calls, [op |-> "list", ok |-> ok])
        /\ failed' = (failed \/ ~ok)
    /\ pc' = "loop"
    /\ UNCHANGED <<rows, deduplicate, created_rows, idx, callNo, results, store0,
                   decisions, svars>>

\* upload_skip_row as an upsert: the matching row is overwritten by the record
upload_skip_row_upsert ==
    /\ UNCHANGED cvars
    /\ pc = "loop"
    /\ idx <= Len(rows)
    /\ is_duplicate(deduplicate, existing_rows, rows[idx])
    /\ decisions' = Append(decisions, "skip")
    /\ idx' = idx + 1
    /\ LET j == CHOOSE j \in 1..Len(existing_rows) :
                    RowsMatch(existing_rows[j], rows[idx])
           rid == existing_rows[j].id
       IN  /\ calls' = Append(calls, [op |-> "update", ok |-> TRUE, id |-> rid])
           /\ store' = [k \in 1..Len(store) |->
                          IF store[k].id = rid
                          THEN ServerCreated(schema, rid, processed_row(rows[idx]))
                          ELSE store[k]]
    /\ UNCHANGED <<rows, deduplicate, existing_rows, created_rows, pc, callNo,
                   results, store0, failed, nextId, schema>>

upload_skip_row ==
    /\ UNCHANGED cvars
    /\ pc = "loop"
    /\ idx <= Len(rows)
    /\ is_duplicate(deduplicate, existing_rows, rows[idx])
    /\ decisions' = Append(decisions, "skip")
    /\ idx' = idx + 1
    /\ UNCHANGED <<rows, deduplicate, existing_rows, created_rows, pc, callNo,
                   results, store0, calls, failed, svars>>

\* upload_add_row without the per-row try: a failed create ends the loop
upload_add_row_abort ==
    /\ UNCHANGED cvars
    /\ pc = "loop"
    /\ idx <= Len(rows)
    /\ ~is_duplicate(deduplicate, existing_rows, rows[idx])
    /\ decisions' = Append(decisions, "create")
    /\ \E ok \in BOOLEAN :
        LET data == processed_row(rows[idx])
            created_row == ServerCreated(schema, nextId, data)
        IN  /\ calls' = Append(calls, [op |-> "create", ok |-> ok, i |-> idx, data |-> data])
            /\ failed' = (failed \/ ~ok)
            /\ IF ok
               THEN /\ store' = Append(store, created_row)
                    /\ nextId' = nextId + 1
                    /\ created_rows' = Append(created_rows, created_row)
                    /\ idx' = idx + 1
               ELSE /\ UNCHANGED <<store, nextId, created_rows>>
                    /\ idx' = Len(rows) + 1
    /\ UNCHANGED <<rows, deduplicate, existing_rows, pc, callNo, results, store0,
                   schema>>

\* upload_add_row rechecking against its own writes: the created row joins
\* the snapshot
upload_add_row_rechecks ==
    /\ UNCHANGED cvars
    /\ pc = "loop"
    /\ idx <= Len(rows)
    /\ ~is_duplicate(deduplicate, existing_rows, rows[idx])
    /\ decisions' = Append(decisions, "create")
    /\ \E ok \in BOOLEAN :
        LET data == processed_row(rows[idx])
            created_row == ServerCreated(schema, nextId, data)
        IN  /\ calls' = Append(calls, [op |-> "create", ok |-> ok, i |-> idx, data |-> data])
            /\ failed' = (failed \/ ~ok)
            /\ IF ok
               THEN /\ store' = Append(store, created_row)
                    /\ nextId' = nextId + 1
                    /\ created_rows' = Append(created_rows, created_row)
                    /\ existing_rows' = Append(existing_rows, created_row)
               ELSE UNCHANGED <<store, nextId, created_rows, existing_rows>>
    /\ idx' = idx + 1
    /\ UNCHANGED <<rows, deduplicate, pc, callNo, results, store0, schema>>

\* A record that is no duplicate: add_row, whose result is the created row or
\* None.  The 0.5 s pause after a create changes no state and is left out; no
\* value of the model makes the loop body raise (line 376).
upload_add_row ==
    /\ UNCHANGED cvars
    /\ pc = "loop"
    /\ idx <= Len(rows)
    /\ ~is_duplicate(deduplicate, existing_rows, rows[idx])
    /\ decisions' = Append(decisions, "create")
    /\ \E ok \in BOOLEAN :
        LET data == processed_row(rows[idx])
            created_row == ServerCreated(schema, nextId, data)
        IN  /\ calls' = Append(calls, [op |-> "create", ok |-> ok, i |-> idx, data |-> data])
            /\ failed' = (failed \/ ~ok)
            /\ IF ok
               THEN /\ store' = Append(store, created_row)
                    /\ nextId' = nextId + 1
                    /\ created_rows' = Append(created_rows, created_row)
               ELSE UNCHANGED <<store, nextId, created_rows>>
    /\ idx' = idx + 1
    /\ UNCHANGED <<rows, deduplicate, existing_rows, pc, callNo, results, store0,
                   schema>>

upload_return ==
    /\ UNCHANGED cvars
    /\ pc = "loop"
    /\ idx > Len(rows)
    /\ results' = Append(results, created_rows)
    /\ pc' = "done"
    /\ UNCHANGED <<rows, deduplicate, existing_rows, created_rows, idx, callNo,
                   store0, calls, decisions, failed, svars>>

(***************************************************************************)
(* find_duplicates.  A dict is a sequence of key/value pairs in insertion   *)
(* order.                                                                   *)
(***************************************************************************)
HasKey(groups, key) == \E g \in 1..Len(groups) : groups[g].key = key

RECURSIVE job_uid_groups(_, _)
job_uid_groups(remaining, groups) ==
    IF remaining = <<>> THEN groups
    ELSE LET row == Head(remaining)
             job_uid == PyStr(Get(row, "job_uid", PyStrV(<<>>)))
         IN  IF job_uid = <<>> THEN job_uid_groups(Tail(remaining), groups)
             ELSE IF HasKey(groups, job_uid)
             THEN job_uid_groups(Tail(remaining),
                    [g \in 1..Len(groups) |->
                        IF groups[g].key = job_uid
                        THEN [groups[g] EXCEPT !.rows = Append(@, row)]
                        ELSE groups[g]])
             ELSE job_uid_groups(Tail(remaining),
                    Append(groups, [key |-> job_uid, rows |-> <<row>>]))

\* only_duplicates keeping every group
only_duplicates_all(groups) == groups

\* the groups that have duplicates
only_duplicates(groups) == SelectSeq(groups, LAMBDA g : Len(g.rows) > 1)

find_duplicates_call ==
    /\ opc = "idle"
    /\ op' = [name |-> "find_duplicates"]
    /\ \E ok \in BOOLEAN :
        /\ all_rows' = get_all_rows(store, ok)
        /\ failed' = ~ok
        /\ ret' = [kind |-> "dict",
                   val |-> only_duplicates(job_uid_groups(get_all_rows(store, ok), <<>>))]
    /\ opc' = "done"
    /\ UNCHANGED <<page, requested, responses, rvars, cfgvars, suspended, mvars, svars>>
    /\ UNCHANGED <<rows, deduplicate, existing_rows, created_rows, idx, pc, callNo,
                   results, store0, calls, decisions>>

(***************************************************************************)
(* Inputs: the values a job_uid takes in a record and in a stored row.      *)
(***************************************************************************)
JobUidValues == {PyIntV(0), PyIntV(1), PyStrV(<<"a">>)}

\* rows written earlier through a text column; rows holding numbers are the
\* ones the calls of the model create
StoredUidValues == {PyStrV(<<"0", "1">>), PyStrV(<<"a">>)}

Skills == PyList(<<<<"x">>>>)

\* a record of the batch; the last one has no job_uid
Records ==
    {[job_uid |-> u, skills |-> Skills] : u \in JobUidValues}
        \cup {[skills |-> Skills]}

\* a row of the table written earlier, by this program or another writer
StoredRowBodies ==
    {[job_uid |-> u, skills |-> PyStrV(PyStr(Skills))] : u \in StoredUidValues}
        \cup {[skills |-> PyStrV(PyStr(Skills))]}

SeqsUpTo(S, n) == UNION {[1..m -> S] : m \in 0..n}

InitialStores ==
    {[j \in 1..Len(bodies) |-> [id |-> j] @@ bodies[j]] :
        bodies \in SeqsUpTo(StoredRowBodies, MaxStore)}

\* no upload call is running, in this pipeline run or another
UploadIdle ==
    /\ existing_rows = <<>>
    /\ created_rows = <<>>
    /\ idx = 1
    /\ pc = "init"
    /\ callNo = 0
    /\ results = <<>>
    /\ store0 = store
    /\ calls = <<>>
    /\ decisions = <<>>
    /\ failed = FALSE
    /\ suspended = <<>>

\* no client operation and no maintenance pass is running
ClientIdle ==
    /\ op = [name |-> "none"]
    /\ opc = "idle"
    /\ ret = [kind |-> "none"]
    /\ page = 1
    /\ all_rows = <<>>
    /\ requested = <<>>
    /\ responses = <<>>
    /\ req = [method |-> "none"]
    /\ attempts = 0
    /\ last_exception = NoException
    /\ rpc = "idle"
    /\ response = [status |-> 0]
    /\ exc = NoException
    /\ attemptLog = <<>>
    /\ sleeps = <<>>
    /\ duplicates = <<>>
    /\ todo = <<>>
    /\ deleted_count = 0

Init ==
    /\ store \in InitialStores
    /\ nextId = Len(store) + 1
    /\ schema \in {"as_sent", "text"}
    /\ rows \in SeqsUpTo(Records, MaxBatch)
    /\ deduplicate \in BOOLEAN
    /\ UploadIdle
    /\ max_retries = 3
    /\ retry_delay = 1
    /\ ClientIdle

Next ==
    \/ upload_multiple_rows_call
    \/ upload_fetch_existing
    \/ upload_skip_row
    \/ upload_add_row
    \/ upload_return

vars == <<store, nextId, schema, rows, deduplicate, existing_rows, created_rows,
          idx, pc, callNo, results, store0, calls, decisions, failed,
          max_retries, retry_delay, op, opc, ret, page, all_rows, requested,
          responses, req, attempts, last_exception, rpc, response, exc,
          attemptLog, sleeps, duplicates, todo, deleted_count, suspended>>

Spec == Init /\ [][Next]_vars

(***************************************************************************)
(* SpecClient: one client operation against a table of up to MaxRows rows.  *)
(***************************************************************************)
TableOfSize(n) == [k \in 1..n |-> [id |-> k, job_uid |-> PyIntV(k)]]

InitClient ==
    /\ store \in {TableOfSize(n) : n \in 0..MaxRows}
    /\ nextId = Len(store) + 1
    /\ schema = "as_sent"
    /\ rows = <<>>
    /\ deduplicate = TRUE
    /\ UploadIdle
    /\ max_retries \in 0..MaxRetries
    /\ retry_delay \in {1, 3}
    /\ ClientIdle

NextClient ==
    \/ client_call
    \/ request_attempt_returns
    \/ request_attempt_raises
    \/ request_exhausted
    \/ get_all_rows_next_page
    \/ get_all_rows_return
    \/ get_all_rows_except
    \/ row_operation_return
    \/ row_operation_except
    \/ delete_row_return
    \/ delete_row_except
    \/ request_with_retry_ends

SpecClient == InitClient /\ [][NextClient]_vars


(***************************************************************************)
(* Properties of upload_multiple_rows, checked under Spec.                  *)
(***************************************************************************)
CreateCalls == SelectSeq(calls, LAMBDA c : c.op = "create")
OkCreates == SelectSeq(calls, LAMBDA c : c.op = "create" /\ c.ok)
Indices(seq, v) == {k \in 1..Len(seq) : seq[k] = v}
Finished == pc = "done" /\ Len(results) = callNo

\* C1: with deduplication on and every store call succeeding, the second of
\* two consecutive uploads of the same batch creates no row: it returns the
\* empty list and leaves the store as it found it.
C1_SecondUploadCreatesNothing ==
    (Finished /\ callNo = 2 /\ deduplicate /\ ~failed)
        => (results[2] = <<>> /\ store = store0)

\* C1 witness: two calls finished without a failure, the first created two rows
C1_Witness ==
    /\ Finished /\ callNo = 2 /\ deduplicate /\ ~failed
    /\ Len(results[1]) = 2
    /\ \E k \in 1..Len(rows) : ~PyInt(Get(rows[k], deduplication_field, PyIntV(0))).ok

\* the logical job of a row: two rows hold the same job when both carry a
\* job_uid and the two values are equal
SameJobUid(r1, r2) ==
    /\ deduplication_field \in DOMAIN r1
    /\ deduplication_field \in DOMAIN r2
    /\ r1[deduplication_field] = r2[deduplication_field]

NonZeroJobUid(r) ==
    /\ deduplication_field \in DOMAIN r
    /\ r[deduplication_field].k # "none"
    /\ LET n == PyInt(r[deduplication_field]) IN ~(n.ok /\ n.n = 0)

\* C2 (as claimed): after an upload that started from a store with at most one
\* row per job_uid, the store holds at most one row per non-zero job_uid.
\* Stated for the calls in which no store call failed, which the claim covers.
C2_AtMostOneRowPerJobUid ==
    (Finished /\ deduplicate /\ ~failed
        /\ \A a, b \in 1..Len(store0) : a # b => ~SameJobUid(store0[a], store0[b]))
    => \A a, b \in 1..Len(store) :
            (a # b /\ NonZeroJobUid(store[a])) => ~SameJobUid(store[a], store[b])

\* the pair rule of the claim: a missing field reads as 0 for the integer
\* parse and as None for the string form
C3_Matches(e, r) ==
    LET a == PyInt(Get(e, deduplication_field, PyIntV(0)))
        b == PyInt(Get(r, deduplication_field, PyIntV(0)))
    IN  \/ a.ok /\ b.ok /\ a.n = b.n
        \/ ~(a.ok /\ b.ok)
             /\ PyStr(Get(e, deduplication_field, PyNone))
                  = PyStr(Get(r, deduplication_field, PyNone))

\* C3: with deduplication on, a record is skipped exactly when some snapshot
\* row matches it (equal integers when both parse, equal string forms when
\* either does not), and every record that is not skipped is passed to create.
C3_SkipRule ==
    deduplicate =>
        /\ \A k \in 1..Len(decisions) :
              (decisions[k] = "skip")
                 <=> (\E j \in 1..Len(existing_rows) : C3_Matches(existing_rows[j], rows[k]))
        /\ {CreateCalls[c].i : c \in 1..Len(CreateCalls)} = Indices(decisions, "create")
        /\ \A c \in 1..Len(CreateCalls) :
              CreateCalls[c].data = processed_row(rows[CreateCalls[c].i])

\* C3 witness: a record skipped through the string fallback, a record skipped
\* through the integer comparison of a string with a number, and a create
C3_Witness ==
    /\ deduplicate /\ pc = "done" /\ callNo = 2 /\ Len(decisions) = 2
    /\ decisions[1] = "skip" /\ decisions[2] = "skip"
    /\ ~PyInt(Get(rows[1], deduplication_field, PyIntV(0))).ok
    /\ deduplication_field \in DOMAIN rows[2]
    /\ rows[2][deduplication_field].k = "int"
    /\ \E j \in 1..Len(existing_rows) :
          /\ deduplication_field \in DOMAIN existing_rows[j]
          /\ existing_rows[j][deduplication_field].k = "str"
          /\ RowsMatch(existing_rows[j], rows[2])
    /\ Len(results[1]) = 1

\* C4: upload only adds rows: the only store calls are the listing and
\* creates, every row of the store at call time is still there unchanged,
\* the store grows by exactly the creates that succeeded, and a skipped
\* record causes no call.
C4_UploadOnlyAdds ==
    /\ \A c \in 1..Len(calls) : calls[c].op \in {"list", "create"}
    /\ Len(store) = Len(store0) + Len(OkCreates)
    /\ SubSeq(store, 1, Len(store0)) = store0
    /\ Len(CreateCalls) = Cardinality(Indices(decisions, "create"))
    /\ Len(calls) <= 1 + Cardinality(Indices(decisions, "create"))

\* C4 witness: a call that skipped one record and created another, over a
\* store that held rows
C4_Witness ==
    /\ pc = "done" /\ store0 # <<>>
    /\ decisions = <<"skip", "create">>
    /\ Len(store) > Len(store0)

\* C5: a failed create does not end the batch: every record is processed, and
\* the call returns exactly the rows whose create succeeded, in input order.
C5_BestEffortBatch ==
    (Finished /\ rows # <<>>) =>
        /\ Len(decisions) = Len(rows)
        /\ results[callNo] = SubSeq(store, Len(store0) + 1, Len(store))
        /\ Len(results[callNo]) = Len(OkCreates)
        /\ \A c \in 1..Len(OkCreates) :
              results[callNo][c]
                = ServerCreated(schema, results[callNo][c].id,
                                processed_row(rows[OkCreates[c].i]))
        /\ \A c, d \in 1..Len(OkCreates) : c < d => OkCreates[c].i < OkCreates[d].i

\* C5 witness: the create of the first record failed, the second was created
C5_Witness ==
    /\ Finished /\ Len(rows) = 2
    /\ Len(CreateCalls) = 2
    /\ ~CreateCalls[1].ok /\ CreateCalls[2].ok
    /\ Len(results[callNo]) = 1


(***************************************************************************)
(* SpecDup: find_duplicates over a table of up to MaxDupRows rows.          *)
(***************************************************************************)
DupRowBodies ==
    {[job_uid |-> u] :
        u \in {PyIntV(1), PyStrV(<<"1">>), PyStrV(<<"0", "1">>), PyStrV(<<>>), PyNone}}
      \cup {[skills |-> PyStrV(PyStr(Skills))]}

InitDup ==
    /\ store \in {[j \in 1..Len(bodies) |-> [id |-> j] @@ bodies[j]] :
                     bodies \in SeqsUpTo(DupRowBodies, MaxDupRows)}
    /\ nextId = Len(store) + 1
    /\ schema = "as_sent"
    /\ rows = <<>>
    /\ deduplicate = TRUE
    /\ UploadIdle
    /\ max_retries = 3
    /\ retry_delay = 1
    /\ ClientIdle

NextDup == find_duplicates_call

SpecDup == InitDup /\ [][NextDup]_vars

(***************************************************************************)
(* Properties of the client, checked under SpecClient.                      *)
(***************************************************************************)
Failures(log) == {k \in 1..Len(log) : ~log[k].ok}

\* C6: the retry wrapper makes at most max_retries attempts, an attempt that
\* succeeds is the last one and its response is the one returned, and when
\* max_retries (>= 1) attempts have failed the exception of the last attempt
\* is raised.
C6_RetryWrapper ==
    /\ Len(attemptLog) <= max_retries
    /\ \A k \in 1..Len(attemptLog) :
          attemptLog[k].ok =>
             /\ k = Len(attemptLog)
             /\ rpc = "returned"
             /\ response = attemptLog[k].response
    /\ rpc = "returned" => (attemptLog # <<>> /\ attemptLog[Len(attemptLog)].ok)
    /\ (rpc = "raised" /\ max_retries >= 1) =>
          /\ Len(attemptLog) = max_retries
          /\ Failures(attemptLog) = 1..max_retries
          /\ exc = attemptLog[max_retries].e

\* C6 witness: three attempts failed and the third exception was raised
C6_Witness ==
    /\ rpc = "raised" /\ max_retries = 3
    /\ Len(attemptLog) = 3
    /\ exc.attempt = 3 /\ exc.type = "ConnectionError"

C8_FailureIsSignalled ==
    (opc = "done" /\ rpc = "raised" /\ max_retries >= 1 /\ store # <<>>) =>
        CASE op.name = "get_all_rows" -> ret # [kind |-> "list", val |-> <<>>]
          [] op.name \in {"get_row", "add_row", "update_row"} -> ret.kind # "row"
          [] op.name = "delete_row" -> ret # [kind |-> "bool", val |-> TRUE]
          [] OTHER -> ret.kind = "exception"

RECURSIVE ConcatResults(_)
ConcatResults(pages) ==
    IF pages = <<>> THEN <<>> ELSE Head(pages).results \o ConcatResults(Tail(pages))

\* C9: get_all_rows requests pages 1, 2, 3, ... of size 100 in order; when no
\* request exhausts its retries it returns the concatenation of the pages'
\* results, the last page being the first with no results or no next page,
\* and that is every row of the (unmodified) table exactly once.
C9_ListAll ==
    /\ \A k \in 1..Len(requested) : requested[k] = [page |-> k, size |-> 100]
    /\ (opc = "done" /\ op.name = "get_all_rows" /\ rpc = "returned") =>
          /\ Len(responses) = Len(requested)
          /\ ret = [kind |-> "list", val |-> ConcatResults(responses)]
          /\ \A k \in 1..(Len(responses) - 1) :
                responses[k].results # <<>> /\ responses[k].next
          /\ LET last == responses[Len(responses)]
             IN  last.results = <<>> \/ ~last.next
          /\ Len(ret.val) = Len(store)
          /\ \A j \in 1..Len(store) :
                Cardinality({k \in 1..Len(ret.val) : ret.val[k] = store[j]}) = 1

\* C9 witness: a table of 201 rows listed in three pages
C9_Witness ==
    /\ opc = "done" /\ op.name = "get_all_rows" /\ rpc = "returned"
    /\ Len(requested) = 3
    /\ Len(ret.val) = 201

\* get_all_rows, the operator the callers' models use, is what the paginated
\* operation returns
GetAllRowsRefined ==
    (opc = "done" /\ op.name = "get_all_rows") =>
        ret.val = get_all_rows(store, rpc = "returned")

(***************************************************************************)
(* Properties of find_duplicates, checked under SpecDup.                    *)
(***************************************************************************)
\* the stringified job_uid of a row; empty for a row that has none
StrJobUid(row) == PyStr(Get(row, "job_uid", PyStrV(<<>>)))

SeqToSet(seq) == {seq[k] : k \in 1..Len(seq)}

\* C10: every group find_duplicates returns has at least 2 rows, all with the
\* group's stringified job_uid; no row is in two groups; and the groups are
\* exactly the sets of fetched rows sharing a (non-empty) stringified job_uid
\* that have at least 2 members.
C10_FindDuplicates ==
    (opc = "done" /\ op.name = "find_duplicates") =>
        LET d == ret.val
        IN  /\ \A g \in 1..Len(d) : Len(d[g].rows) >= 2
            /\ \A g \in 1..Len(d) : \A k \in 1..Len(d[g].rows) :
                  StrJobUid(d[g].rows[k]) = d[g].key
            /\ \A g, h \in 1..Len(d) :
                  g # h => SeqToSet(d[g].rows) \cap SeqToSet(d[h].rows) = {}
            /\ \A g \in 1..Len(d) :
                  Cardinality(SeqToSet(d[g].rows)) = Len(d[g].rows)
            /\ {SeqToSet(d[g].rows) : g \in 1..Len(d)}
                 = {grp \in {{r \in SeqToSet(all_rows) : StrJobUid(r) = StrJobUid(r0)} :
                                r0 \in {r \in SeqToSet(all_rows) : StrJobUid(r) # <<>>}} :
                        Cardinality(grp) >= 2}
            /\ ~failed => all_rows = store

\* C10 witness: a table with a duplicated job_uid and a job_uid that occurs once
C10_Witness ==
    /\ opc = "done" /\ op.name = "find_duplicates" /\ ~failed
    /\ Len(ret.val) = 1
    /\ Len(ret.val[1].rows) = 2
    /\ Len(store) = 3
    /\ \E k \in 1..3 : StrJobUid(store[k]) \notin {<<>>, ret.val[1].key}

(***************************************************************************)
(* delete_row and update_row as the maintenance passes see them: the row is *)
(* removed or patched when the request succeeds; when it exhausted its      *)
(* retries the table is unchanged and the caller gets False or None.  The   *)
(* row id is formatted into the URL, so it is compared by its text.         *)
(***************************************************************************)
IdText(row_id) == PyStr(PyIntV(row_id))

delete_row(st, row_id, ok) ==
    IF ok /\ \E k \in 1..Len(st) : IdText(st[k].id) = row_id
    THEN [store |-> SelectSeq(st, LAMBDA r : IdText(r.id) # row_id), success |-> TRUE]
    ELSE [store |-> st, success |-> FALSE]

(***************************************************************************)
(* Python's order on strings (by code point) and on the sort key of         *)
(* delete_duplicates.                                                       *)
(***************************************************************************)
\* ord(c), as the rank of c among the characters of the model's strings
Ord(c) ==
    LET CodePoints ==
            <<" ", "'", "+", "-", ".", "/", "0", "1", "2", "3", "4", "5", "6", "7",
              "8", "9", ":", "A", "N", "T", "Z", "[", "]", "a", "b", "e", "n", "o",
              "x", "|">>
    IN  CHOOSE i \in 1..Len(CodePoints) : CodePoints[i] = c

RECURSIVE StrLess(_, _)
StrLess(a, b) ==
    IF b = <<>> THEN FALSE
    ELSE IF a = <<>> THEN TRUE
    ELSE IF Head(a) = Head(b) THEN StrLess(Tail(a), Tail(b))
    ELSE Ord(Head(a)) < Ord(Head(b))

\* key=lambda x: (x.get('posted_time_date', ''), x.get('id', 0))
sort_key(x) ==
    [posted_time_date |-> Get(x, "posted_time_date", PyStrV(<<>>)),
     id |-> Get(x, "id", 0)]

\* a < b on two keys: the first components that differ decide
KeyLess(a, b) ==
    IF a.posted_time_date = b.posted_time_date THEN a.id < b.id
    ELSE /\ a.posted_time_date.k = "str"
         /\ b.posted_time_date.k = "str"
         /\ StrLess(a.posted_time_date.s, b.posted_time_date.s)

\* sorted() raises TypeError when two of the keys are not ordered (None and a
\* string): a sort has to compare the elements that end up next to each other
sort_raises(rs) ==
    \E i, j \in 1..Len(rs) :
        sort_key(rs[i]).posted_time_date.k # sort_key(rs[j]).posted_time_date.k

\* sorted(rows, key=..., reverse=keep_newest); stable in both directions
RECURSIVE sorted_rows(_, _)
sorted_rows(rs, reverse) ==
    IF rs = <<>> THEN <<>>
    ELSE LET Before(i, j) ==
                 IF reverse THEN KeyLess(sort_key(rs[j]), sort_key(rs[i]))
                 ELSE KeyLess(sort_key(rs[i]), sort_key(rs[j]))
             first == CHOOSE i \in 1..Len(rs) :
                         /\ \A j \in 1..Len(rs) : ~Before(j, i)
                         /\ \A j \in 1..(i - 1) : Before(j, i) \/ Before(i, j)
         IN  <<rs[first]>>
                \o sorted_rows(SubSeq(rs, 1, first - 1) \o SubSeq(rs, first + 1, Len(rs)),
                               reverse)

(***************************************************************************)
(* delete_duplicates, one group or one delete per step.                     *)
(***************************************************************************)
\* what a maintenance pass never touches
pass_frame == <<nextId, schema, cfgvars, suspended, page, requested, responses, rvars, rows,
                deduplicate, existing_rows, created_rows, idx, pc, callNo, results,
                decisions>>

\* the pass returns v
PassReturns(v) ==
    /\ ret' = v
    /\ opc' = "done"

\* duplicates = await self.find_duplicates(); if not duplicates: return 0
delete_duplicates_call ==
    /\ opc = "idle"
    /\ \E keep_newest \in BOOLEAN, ok \in BOOLEAN :
        LET found == only_duplicates(job_uid_groups(get_all_rows(store, ok), <<>>))
        IN  /\ op' = [name |-> "delete_duplicates", keep_newest |-> keep_newest]
            /\ all_rows' = get_all_rows(store, ok)
            /\ failed' = ~ok
            /\ duplicates' = found
            /\ IF found = <<>>
               THEN PassReturns([kind |-> "int", val |-> 0])
               ELSE opc' = "running" /\ ret' = ret
    /\ store0' = store
    /\ calls' = <<>>
    /\ todo' = <<>>
    /\ deleted_count' = 0
    /\ UNCHANGED <<store, pass_frame>>

\* delete_duplicates_next_group with every row of the group to delete
delete_duplicates_next_group_keeps_none ==
    /\ opc = "running" /\ op.name = "delete_duplicates"
    /\ todo = <<>>
    /\ duplicates # <<>>
    /\ IF sort_raises(Head(duplicates).rows)
       THEN /\ PassReturns([kind |-> "int", val |-> 0])
            /\ UNCHANGED <<duplicates, todo>>
       ELSE /\ todo' = sorted_rows(Head(duplicates).rows, op.keep_newest)
            /\ duplicates' = Tail(duplicates)
            /\ UNCHANGED <<ret, opc>>
    /\ UNCHANGED <<op, all_rows, failed, store0, calls, deleted_count, store, pass_frame>>

\* the next group: sort it, keep the first row.  A TypeError of the sort ends
\* the pass in the except block, which returns 0.
delete_duplicates_next_group ==
    /\ opc = "running" /\ op.name = "delete_duplicates"
    /\ todo = <<>>
    /\ duplicates # <<>>
    /\ IF sort_raises(Head(duplicates).rows)
       THEN /\ PassReturns([kind |-> "int", val |-> 0])
            /\ UNCHANGED <<duplicates, todo>>
       ELSE /\ todo' = Tail(sorted_rows(Head(duplicates).rows, op.keep_newest))
            /\ duplicates' = Tail(duplicates)
            /\ UNCHANGED <<ret, opc>>
    /\ UNCHANGED <<op, all_rows, failed, store0, calls, deleted_count, store, pass_frame>>

\* one row of rows_to_delete: delete_row(str(row_id)), counted when it succeeds
delete_duplicates_delete_row ==
    /\ opc = "running" /\ op.name = "delete_duplicates"
    /\ todo # <<>>
    /\ LET row_id == Get(Head(todo), "id", 0)
       IN  IF row_id # 0
           THEN \E ok \in BOOLEAN :
                  LET deleted == delete_row(store, IdText(row_id), ok)
                  IN  /\ store' = deleted.store
                      /\ calls' = Append(calls, [op |-> "delete", id |-> row_id,
                                                 ok |-> deleted.success])
                      /\ failed' = (failed \/ ~deleted.success)
                      /\ deleted_count' = IF deleted.success THEN deleted_count + 1
                                          ELSE deleted_count
           ELSE UNCHANGED <<store, calls, failed, deleted_count>>
    /\ todo' = Tail(todo)
    /\ UNCHANGED <<op, opc, ret, all_rows, store0, duplicates, pass_frame>>

delete_duplicates_return ==
    /\ opc = "running" /\ op.name = "delete_duplicates"
    /\ todo = <<>>
    /\ duplicates = <<>>
    /\ PassReturns([kind |-> "int", val |-> deleted_count])
    /\ UNCHANGED <<op, all_rows, failed, store0, calls, mvars, store, pass_frame>>

(***************************************************************************)
(* SpecDel: delete_duplicates over a table of up to MaxDelRows rows.  A     *)
(* posted_time_date is a text, null, or a column the table does not have.   *)
(***************************************************************************)
MaxDelRows == 4      \* rows in the table delete_duplicates runs against

DelRowBodies ==
    {[job_uid |-> PyIntV(1), posted_time_date |-> d] :
        d \in {PyStrV(<<"2">>), PyStrV(<<"1", "0">>), PyNone}}
      \cup {[job_uid |-> PyIntV(2), posted_time_date |-> d] :
                d \in {PyStrV(<<"2">>), PyNone}}
      \cup {[job_uid |-> PyIntV(1)]}

InitDel ==
    /\ store \in {[j \in 1..Len(bodies) |-> [id |-> j] @@ bodies[j]] :
                     bodies \in SeqsUpTo(DelRowBodies, MaxDelRows)}
    /\ nextId = Len(store) + 1
    /\ schema = "as_sent"
    /\ rows = <<>>
    /\ deduplicate = TRUE
    /\ UploadIdle
    /\ max_retries = 3
    /\ retry_delay = 1
    /\ ClientIdle

NextDel ==
    \/ delete_duplicates_call
    \/ delete_duplicates_next_group
    \/ delete_duplicates_delete_row
    \/ delete_duplicates_return

SpecDel == InitDel /\ [][NextDel]_vars

(***************************************************************************)
(* Properties of delete_duplicates, checked under SpecDel.                  *)
(***************************************************************************)
\* the rows of the table at call time that share the job_uid text of r
GroupOf(r) == {x \in SeqToSet(store0) : StrJobUid(x) = StrJobUid(r)}

Duplicated(r) == StrJobUid(r) # <<>> /\ Cardinality(GroupOf(r)) >= 2

\* r is the row of its group the pass is to keep
Survivor(r, keep_newest) ==
    \A x \in GroupOf(r) \ {r} :
        IF keep_newest THEN KeyLess(sort_key(x), sort_key(r))
        ELSE KeyLess(sort_key(r), sort_key(x))

\* C11 (as claimed): after delete_duplicates, every job_uid that was
\* duplicated has exactly one row left: the one with the maximal
\* (posted_time_date, id) when keep_newest, the minimal one otherwise.  Stated
\* for the passes in which the listing and every delete succeeded.
C11_OneSurvivorPerJobUid ==
    (opc = "done" /\ op.name = "delete_duplicates" /\ ~failed) =>
        \A r \in SeqToSet(store0) :
            Duplicated(r) =>
                /\ Cardinality(GroupOf(r) \cap SeqToSet(store)) = 1
                /\ (r \in SeqToSet(store)) <=> Survivor(r, op.keep_newest)

\* a pass over comparable dates does what C11 says: the rows with a text or
\* missing posted_time_date
C11_HoldsForOrderedDates ==
    (opc = "done" /\ op.name = "delete_duplicates" /\ ~failed
        /\ \A g \in 1..Len(duplicates) : ~sort_raises(duplicates[g].rows)) =>
        \A r \in SeqToSet(store0) :
            Duplicated(r) =>
                /\ Cardinality(GroupOf(r) \cap SeqToSet(store)) = 1
                /\ (r \in SeqToSet(store)) <=> Survivor(r, op.keep_newest)

(***************************************************************************)
(* find_similar_jobs, one update per step.                                  *)
(***************************************************************************)
\* str.lower() on the characters of the model
PyLower(s) ==
    [i \in 1..Len(s) |->
        CASE s[i] = "A" -> "a"
          [] s[i] = "N" -> "n"
          [] s[i] = "T" -> "t"
          [] s[i] = "Z" -> "z"
          [] OTHER -> s[i]]

PyStrip(s) == RStrip(LStrip(s))

\* str(row.get(field, default)).strip().lower()
KeyPart(row, field, default) == PyLower(PyStrip(PyStr(Get(row, field, PyStrV(default)))))

title_of(row) == KeyPart(row, "job_title", <<>>)

\* f"{title}|{location}|{skills}"
composite_key(row) ==
    title_of(row) \o <<"|">> \o KeyPart(row, "location", <<>>)
        \o <<"|">> \o KeyPart(row, "skills", <<"[", "]">>)

RECURSIVE similar_groups(_, _)
similar_groups(remaining, acc) ==
    IF remaining = <<>> THEN acc
    ELSE LET row == Head(remaining)
             key == composite_key(row)
         IN  IF title_of(row) = <<>> THEN similar_groups(Tail(remaining), acc)
             ELSE IF HasKey(acc, key)
             THEN similar_groups(Tail(remaining),
                    [g \in 1..Len(acc) |->
                        IF acc[g].key = key
                        THEN [acc[g] EXCEPT !.rows = Append(@, row)]
                        ELSE acc[g]])
             ELSE similar_groups(Tail(remaining),
                    Append(acc, [key |-> key, rows |-> <<row>>]))

\* the groups that have more than one row
similar_jobs(acc) == SelectSeq(acc, LAMBDA g : Len(g.rows) > 1)

\* rows_to_tag leaving out the first row of every group
RECURSIVE rows_to_tag_but_first(_)
rows_to_tag_but_first(found) ==
    IF found = <<>> THEN <<>>
    ELSE Tail(Head(found).rows) \o rows_to_tag_but_first(Tail(found))

\* the rows the two nested loops pass to update_row, in order
RECURSIVE rows_to_tag(_)
rows_to_tag(found) ==
    IF found = <<>> THEN <<>> ELSE Head(found).rows \o rows_to_tag(Tail(found))

StatusDuplicate == PyStrV(<<"d", "u", "p", "l", "i", "c", "a", "t", "e">>)

\* update_row as find_similar_jobs sees it: None when the request failed
update_row(st, sch, row_id, data, ok) ==
    IF ok /\ \E k \in 1..Len(st) : IdText(st[k].id) = row_id
    THEN [store |-> [k \in 1..Len(st) |->
                        IF IdText(st[k].id) = row_id
                        THEN Patched(sch, st[k], data) ELSE st[k]],
          success |-> TRUE]
    ELSE [store |-> st, success |-> FALSE]

find_similar_jobs_call ==
    /\ opc = "idle"
    /\ \E update_status \in BOOLEAN, ok \in BOOLEAN :
        LET found == similar_jobs(similar_groups(get_all_rows(store, ok), <<>>))
        IN  /\ op' = [name |-> "find_similar_jobs", update_status |-> update_status]
            /\ all_rows' = get_all_rows(store, ok)
            /\ failed' = ~ok
            /\ duplicates' = found
            /\ todo' = IF update_status THEN rows_to_tag(found) ELSE <<>>
    /\ opc' = "running"
    /\ store0' = store
    /\ calls' = <<>>
    /\ UNCHANGED <<ret, deleted_count, store, pass_frame>>

\* find_similar_jobs_update_row deleting the row instead of tagging it
find_similar_jobs_update_row_deletes ==
    /\ opc = "running" /\ op.name = "find_similar_jobs"
    /\ todo # <<>>
    /\ \E ok \in BOOLEAN :
        LET deleted == delete_row(store, IdText(Get(Head(todo), "id", 0)), ok)
        IN  /\ store' = deleted.store
            /\ calls' = Append(calls, [op |-> "delete", id |-> Get(Head(todo), "id", 0),
                                       ok |-> deleted.success])
            /\ failed' = (failed \/ ~deleted.success)
    /\ todo' = Tail(todo)
    /\ UNCHANGED <<op, opc, ret, all_rows, store0, duplicates, deleted_count, pass_frame>>

\* await self.update_row(row.get('id'), {'status': 'duplicate'}); the result
\* is not looked at
find_similar_jobs_update_row ==
    /\ opc = "running" /\ op.name = "find_similar_jobs"
    /\ todo # <<>>
    /\ \E ok \in BOOLEAN :
        LET updated == update_row(store, schema, IdText(Get(Head(todo), "id", 0)),
                                  [status |-> StatusDuplicate], ok)
        IN  /\ store' = updated.store
            /\ calls' = Append(calls, [op |-> "update", id |-> Get(Head(todo), "id", 0),
                                       ok |-> updated.success])
            /\ failed' = (failed \/ ~updated.success)
    /\ todo' = Tail(todo)
    /\ UNCHANGED <<op, opc, ret, all_rows, store0, duplicates, deleted_count, pass_frame>>

find_similar_jobs_return ==
    /\ opc = "running" /\ op.name = "find_similar_jobs"
    /\ todo = <<>>
    /\ PassReturns([kind |-> "dict", val |-> duplicates])
    /\ UNCHANGED <<op, all_rows, failed, store0, calls, mvars, store, pass_frame>>

(***************************************************************************)
(* SpecSim: find_similar_jobs over a table of up to MaxSimRows rows.        *)
(***************************************************************************)
MaxSimRows == 3      \* rows in the table find_similar_jobs runs against

StatusScraped == PyStrV(<<"s", "c", "r", "a", "p", "e", "d">>)

\* a title is a text (possibly blank), null, or missing
SimRowBodies ==
    {[job_title |-> t, location |-> PyStrV(<<"x">>), status |-> StatusScraped] :
        t \in {PyStrV(<<"a">>), PyStrV(<<" ", "A">>), PyStrV(<<" ">>), PyNone}}
      \cup {[job_title |-> PyStrV(<<"a">>), location |-> PyNone, status |-> StatusScraped],
            [location |-> PyStrV(<<"x">>), status |-> StatusScraped]}

InitSim ==
    /\ store \in {[j \in 1..Len(bodies) |-> [id |-> j] @@ bodies[j]] :
                     bodies \in SeqsUpTo(SimRowBodies, MaxSimRows)}
    /\ nextId = Len(store) + 1
    /\ schema = "as_sent"
    /\ rows = <<>>
    /\ deduplicate = TRUE
    /\ UploadIdle
    /\ max_retries = 3
    /\ retry_delay = 1
    /\ ClientIdle

NextSim ==
    \/ find_similar_jobs_call
    \/ find_similar_jobs_update_row
    \/ find_similar_jobs_return

SpecSim == InitSim /\ [][NextSim]_vars

(***************************************************************************)
(* Properties of find_similar_jobs, checked under SpecSim.                  *)
(***************************************************************************)
SimilarDone == opc = "done" /\ op.name = "find_similar_jobs"

\* a row has no title: the field is missing, null, or blank
HasNoTitle(row) ==
    \/ "job_title" \notin DOMAIN row
    \/ row.job_title.k = "none"
    \/ row.job_title.k = "str" /\ PyStrip(row.job_title.s) = <<>>

\* the rows of the returned groups
ReturnedRows == UNION {SeqToSet(ret.val[g].rows) : g \in 1..Len(ret.val)}

\* C12 (as claimed): find_similar_jobs returns exactly the composite keys
\* shared by more than one fetched row that has a title, each with all the
\* rows of that key, and a row that has no title is in no returned group.
C12_SimilarGroups ==
    SimilarDone =>
        LET titled == {r \in SeqToSet(all_rows) : ~HasNoTitle(r)}
            WithKey(k) == {r \in titled : composite_key(r) = k}
        IN  /\ {[key |-> ret.val[g].key, rows |-> SeqToSet(ret.val[g].rows)] :
                    g \in 1..Len(ret.val)}
                 = {[key |-> k, rows |-> WithKey(k)] :
                       k \in {kk \in {composite_key(r) : r \in titled} :
                                  Cardinality(WithKey(kk)) >= 2}}
            /\ \A r \in ReturnedRows : ~HasNoTitle(r)

\* what the code groups: the rows whose str(job_title) is not blank, a null
\* title being the text "None"
C12_GroupsOfTheCode ==
    SimilarDone =>
        LET titled == {r \in SeqToSet(all_rows) : title_of(r) # <<>>}
            WithKey(k) == {r \in titled : composite_key(r) = k}
        IN  {[key |-> ret.val[g].key, rows |-> SeqToSet(ret.val[g].rows)] :
                    g \in 1..Len(ret.val)}
                 = {[key |-> k, rows |-> WithKey(k)] :
                       k \in {kk \in {composite_key(r) : r \in titled} :
                                  Cardinality(WithKey(kk)) >= 2}}

StoredRow(st, rid) == st[CHOOSE k \in 1..Len(st) : st[k].id = rid]

UpdatedOk(rid) == \E c \in 1..Len(calls) : calls[c].id = rid /\ calls[c].ok

C14_TaggingPass ==
    /\ \A c \in 1..Len(calls) : calls[c].op = "update"
    /\ Len(store) = Len(store0)
    /\ \A k \in 1..Len(store) :
          /\ DOMAIN store[k] = DOMAIN store0[k]
          /\ \A f \in DOMAIN store0[k] \ {"status"} : store[k][f] = store0[k][f]
    /\ (op.name = "find_similar_jobs" /\ ~op.update_status) =>
          (calls = <<>> /\ store = store0)

\* C14 witness: a pass with update_status=True that tagged two rows
C14_Witness ==
    /\ SimilarDone /\ op.update_status
    /\ Cardinality({k \in 1..Len(store) : store[k] # store0[k]}) = 2
    /\ \A k \in 1..Len(store) : store0[k].status = StatusScraped

(***************************************************************************)
(* clean_up_old_rows, one row per step.  Time is counted in days; the text  *)
(* of a date is its day number in decimal digits, followed by nothing (a    *)
(* naive date), by "Z" or by "+00:00".                                      *)
(***************************************************************************)
date_field == "created_on"

\* row_date_str.replace('Z', '+00:00')
RECURSIVE ReplaceZ(_)
ReplaceZ(s) ==
    IF s = <<>> THEN <<>>
    ELSE (IF Head(s) = "Z" THEN <<"+", "0", "0", ":", "0", "0">> ELSE <<Head(s)>>)
            \o ReplaceZ(Tail(s))

RECURSIVE DigitPrefix(_)
DigitPrefix(s) ==
    IF s # <<>> /\ IsDigit(Head(s)) THEN 1 + DigitPrefix(Tail(s)) ELSE 0

\* fromisoformat accepting any text: what cannot be read is day 0
fromisoformat_lenient(s) ==
    LET n == DigitPrefix(s)
    IN  [ok |-> TRUE, day |-> IF n = 0 THEN 0 ELSE DigitsValue(SubSeq(s, 1, n), 0),
         aware |-> FALSE]

\* datetime.fromisoformat: the date, then nothing or a UTC offset; ValueError
\* for any other text
fromisoformat(s) ==
    LET n == DigitPrefix(s)
        offset == SubSeq(s, n + 1, Len(s))
    IN  IF n > 0 /\ offset \in {<<>>, <<"+", "0", "0", ":", "0", "0">>}
        THEN [ok |-> TRUE, day |-> DigitsValue(SubSeq(s, 1, n), 0), aware |-> offset # <<>>]
        ELSE [ok |-> FALSE, exc |-> "ValueError"]

\* `if not row_date_str`
Falsy(v) ==
    \/ v.k = "none"
    \/ v.k = "str" /\ v.s = <<>>
    \/ v.k = "int" /\ v.n = 0
    \/ v.k = "list" /\ v.items = <<>>

\* The body of the loop for one row: "skip" (no date, or a date that cannot
\* be parsed), "error" (the inner except: .replace on a value that is no
\* text, or a date with an offset compared with the naive cutoff_date),
\* "delete" (older than the cutoff) or "keep".
row_outcome(row, cutoff_date) ==
    LET row_date_str == Get(row, date_field, PyNone)
    IN  IF Falsy(row_date_str) THEN "skip"
        ELSE IF row_date_str.k # "str" THEN "error"
        ELSE LET row_date == fromisoformat(ReplaceZ(row_date_str.s))
             IN  IF ~row_date.ok THEN "skip"
                 ELSE IF row_date.aware THEN "error"
                 ELSE IF row_date.day < cutoff_date THEN "delete"
                 ELSE "keep"

\* datetime.now(), in days
NowDay == 100

clean_up_old_rows_call ==
    /\ opc = "idle"
    /\ \E days \in {30, 31}, ok \in BOOLEAN :
        /\ op' = [name |-> "clean_up_old_rows", days |-> days,
                  cutoff_date |-> NowDay - days]
        /\ all_rows' = get_all_rows(store, ok)
        /\ todo' = get_all_rows(store, ok)
        /\ failed' = ~ok
    /\ opc' = "running"
    /\ deleted_count' = 0
    /\ store0' = store
    /\ calls' = <<>>
    /\ UNCHANGED <<ret, duplicates, store, pass_frame>>

\* a row that is not deleted: skipped, kept, or an error that is logged
clean_up_old_rows_keep_row ==
    /\ opc = "running" /\ op.name = "clean_up_old_rows"
    /\ todo # <<>>
    /\ row_outcome(Head(todo), op.cutoff_date) # "delete"
    /\ todo' = Tail(todo)
    /\ UNCHANGED <<op, opc, ret, all_rows, failed, store0, calls, duplicates,
                   deleted_count, store, pass_frame>>

\* clean_up_old_rows_delete_row counting the delete whatever its result
clean_up_old_rows_delete_row_counts_all ==
    /\ opc = "running" /\ op.name = "clean_up_old_rows"
    /\ todo # <<>>
    /\ row_outcome(Head(todo), op.cutoff_date) = "delete"
    /\ \E ok \in BOOLEAN :
        LET deleted == delete_row(store, IdText(Get(Head(todo), "id", 0)), ok)
        IN  /\ store' = deleted.store
            /\ calls' = Append(calls, [op |-> "delete", id |-> Get(Head(todo), "id", 0),
                                       ok |-> deleted.success])
            /\ failed' = (failed \/ ~deleted.success)
            /\ deleted_count' = deleted_count + 1
    /\ todo' = Tail(todo)
    /\ UNCHANGED <<op, opc, ret, all_rows, store0, duplicates, pass_frame>>

\* a row older than the cutoff: delete_row, counted when it succeeds
clean_up_old_rows_delete_row ==
    /\ opc = "running" /\ op.name = "clean_up_old_rows"
    /\ todo # <<>>
    /\ row_outcome(Head(todo), op.cutoff_date) = "delete"
    /\ \E ok \in BOOLEAN :
        LET deleted == delete_row(store, IdText(Get(Head(todo), "id", 0)), ok)
        IN  /\ store' = deleted.store
            /\ calls' = Append(calls, [op |-> "delete", id |-> Get(Head(todo), "id", 0),
                                       ok |-> deleted.success])
            /\ failed' = (failed \/ ~deleted.success)
            /\ deleted_count' = IF deleted.success THEN deleted_count + 1
                                ELSE deleted_count
    /\ todo' = Tail(todo)
    /\ UNCHANGED <<op, opc, ret, all_rows, store0, duplicates, pass_frame>>

clean_up_old_rows_return ==
    /\ opc = "running" /\ op.name = "clean_up_old_rows"
    /\ todo = <<>>
    /\ PassReturns([kind |-> "int", val |-> deleted_count])
    /\ UNCHANGED <<op, all_rows, failed, store0, calls, mvars, store, pass_frame>>

(***************************************************************************)
(* SpecSweep: clean_up_old_rows over a table of up to MaxSweepRows rows.    *)
(***************************************************************************)
MaxSweepRows == 3    \* rows in the table clean_up_old_rows runs against

\* the text of the date `age` days before now
DateText(age) == NatDigits(NowDay - age)

\* created_on: a naive date, a date with the Z marker (what the store writes),
\* a text that is no date, an empty cell, or no such column
SweepRowBodies ==
    {[created_on |-> PyStrV(DateText(age))] : age \in {29, 30, 31, 32}}
      \cup {[created_on |-> PyStrV(DateText(age) \o <<"Z">>)] : age \in {29, 32}}
      \cup {[created_on |-> PyStrV(<<"x">>)], [created_on |-> PyNone],
            [job_uid |-> PyIntV(1)]}

InitSweep ==
    /\ store \in {[j \in 1..Len(bodies) |-> [id |-> j] @@ bodies[j]] :
                     bodies \in SeqsUpTo(SweepRowBodies, MaxSweepRows)}
    /\ nextId = Len(store) + 1
    /\ schema = "as_sent"
    /\ rows = <<>>
    /\ deduplicate = TRUE
    /\ UploadIdle
    /\ max_retries = 3
    /\ retry_delay = 1
    /\ ClientIdle

NextSweep ==
    \/ clean_up_old_rows_call
    \/ clean_up_old_rows_keep_row
    \/ clean_up_old_rows_delete_row
    \/ clean_up_old_rows_return

SpecSweep == InitSweep /\ [][NextSweep]_vars

(***************************************************************************)
(* Properties of clean_up_old_rows, checked under SpecSweep.                *)
(***************************************************************************)
SweepDone == opc = "done" /\ op.name = "clean_up_old_rows"

UtcOffsets == {<<>>, <<"Z">>, <<"+", "0", "0", ":", "0", "0">>}

\* the value is the text of an ISO-8601 instant, with or without the Z marker
IsIsoDate(v) ==
    /\ v.k = "str"
    /\ \E n \in 1..Len(v.s) :
          /\ \A i \in 1..n : IsDigit(v.s[i])
          /\ SubSeq(v.s, n + 1, Len(v.s)) \in UtcOffsets

\* the day that text denotes
DayOf(v) == DigitsValue(SubSeq(v.s, 1, DigitPrefix(v.s)), 0)

DateOf(row) == Get(row, date_field, PyNone)

Deleted(row) == row \notin SeqToSet(store)

\* C15 (as claimed): clean_up_old_rows(days) deletes a row exactly when its
\* date field is the text of an ISO-8601 instant, with or without a trailing
\* Z, and that instant is earlier than now - days.  Stated for the sweeps in
\* which the listing and every delete succeeded.
C15_DeletesExactlyOldRows ==
    (SweepDone /\ ~failed) =>
        \A k \in 1..Len(store0) :
            Deleted(store0[k])
                <=> (IsIsoDate(DateOf(store0[k]))
                        /\ DayOf(DateOf(store0[k])) < NowDay - op.days)

\* what the code does: the same for the dates written without an offset; a
\* date with a Z or an offset is never deleted
C15_HoldsForNaiveDates ==
    (SweepDone /\ ~failed) =>
        \A k \in 1..Len(store0) :
            Deleted(store0[k])
                <=> (IsIsoDate(DateOf(store0[k]))
                        /\ DigitPrefix(DateOf(store0[k]).s) = Len(DateOf(store0[k]).s)
                        /\ DayOf(DateOf(store0[k])) < NowDay - op.days)

\* C16: clean_up_old_rows never asks to delete a row whose date field is
\* absent or is no date, whatever days is; such a row stays in the table, and
\* the rows after it are still processed: the sweep ends with every fetched
\* row processed and every old row after it asked to be deleted.
C16_NeverDeletesUndated ==
    /\ \A c \in 1..Len(calls) :
          calls[c].op = "delete" => IsIsoDate(DateOf(StoredRow(store0, calls[c].id)))
    /\ op.name = "clean_up_old_rows" =>
          \A k \in 1..Len(store0) : ~IsIsoDate(DateOf(store0[k])) => ~Deleted(store0[k])
    /\ (SweepDone /\ all_rows = store0) =>
          \A k, j \in 1..Len(store0) :
              (k < j /\ ~IsIsoDate(DateOf(store0[k]))
                 /\ DateOf(store0[j]) = PyStrV(DateText(32)))
              => \E c \in 1..Len(calls) : calls[c].id = store0[j].id

\* C16 witness: a row with a text that is no date and a row without the field,
\* each followed by an old row that was deleted
C16_Witness ==
    /\ SweepDone /\ Len(store0) = 3 /\ Len(store) = 2
    /\ date_field \in DOMAIN store0[1]
    /\ store0[1][date_field] = PyStrV(<<"x">>)
    /\ date_field \notin DOMAIN store0[2]
    /\ Deleted(store0[3])
    /\ store = SubSeq(store0, 1, 2)

\* C17: clean_up_old_rows returns the number of deletes that succeeded, which
\* is the number of rows it removed; a delete that failed after its retries
\* is not counted, and the rows after it are still processed.
C17_CountsSuccessfulDeletes ==
    SweepDone =>
        /\ ret.kind = "int"
        /\ ret.val = Cardinality({c \in 1..Len(calls) : calls[c].ok})
        /\ ret.val = Len(store0) - Len(store)
        /\ all_rows = store0 =>
              \A k \in 1..Len(store0) :
                  (IsIsoDate(DateOf(store0[k]))
                     /\ DigitPrefix(DateOf(store0[k]).s) = Len(DateOf(store0[k]).s)
                     /\ DayOf(DateOf(store0[k])) < NowDay - op.days)
                  => \E c \in 1..Len(calls) : calls[c].id = store0[k].id

\* C17 witness: three old rows; the first delete failed, the next two succeeded
C17_Witness ==
    /\ SweepDone /\ Len(calls) = 3
    /\ ~calls[1].ok /\ calls[2].ok /\ calls[3].ok
    /\ ret.val = 2
    /\ Len(store) = 1

(***************************************************************************)
(* parse_relative_time (src/utils/helpers.py).  An instant is a day (days   *)
(* since datetime.min) and a minute of that day; a timedelta is a number of *)
(* days and of minutes, normalised as Python does (0 <= mins < 1440).       *)
(***************************************************************************)
MinutesPerDay == 1440

\* datetime.max is day 3652058; timedelta holds at most 999999999 days
MaxDay == 3652058
MaxDeltaDays == 999999999

\* str.split(): the words between runs of whitespace
RECURSIVE SplitWords(_, _, _)
SplitWords(s, word, out) ==
    LET closed == IF word = <<>> THEN out ELSE Append(out, word)
    IN  IF s = <<>> THEN closed
        ELSE IF Head(s) = " " THEN SplitWords(Tail(s), <<>>, closed)
        ELSE SplitWords(Tail(s), Append(word, Head(s)), out)

OverflowError == [ok |-> FALSE, exc |-> "OverflowError"]

\* timedelta(<keyword>=n)
timedelta(keyword, n) ==
    LET delta == CASE keyword = "minutes" ->
                        [days |-> n \div MinutesPerDay, mins |-> n % MinutesPerDay]
                   [] keyword = "hours" -> [days |-> n \div 24, mins |-> (n % 24) * 60]
                   [] keyword = "days" -> [days |-> n, mins |-> 0]
                   [] keyword = "weeks" -> [days |-> 7 * n, mins |-> 0]
    IN  IF delta.days > MaxDeltaDays \/ delta.days < 0 - MaxDeltaDays
        THEN OverflowError
        ELSE [ok |-> TRUE, days |-> delta.days, mins |-> delta.mins]

\* reference_time - delta: OverflowError outside datetime.min .. datetime.max
datetime_minus(t, delta) ==
    LET borrow == IF t.min < delta.mins THEN 1 ELSE 0
        day == t.day - delta.days - borrow
    IN  IF day < 0 \/ day > MaxDay THEN OverflowError
        ELSE [ok |-> TRUE, day |-> day,
              min |-> t.min - delta.mins + borrow * MinutesPerDay]

\* reference_time - timedelta(...), then `return result, True`; an exception
\* of either step leaves the function
minus_timedelta(reference_time, keyword, n) ==
    LET delta == timedelta(keyword, n)
        result == IF delta.ok THEN datetime_minus(reference_time, delta) ELSE delta
    IN  IF result.ok
        THEN [kind |-> "tuple", result |-> [day |-> result.day, min |-> result.min],
              success |-> TRUE]
        ELSE [kind |-> "exception", type |-> result.exc]

not_parsed(reference_time) ==
    [kind |-> "tuple", result |-> reference_time, success |-> FALSE]

\* the words parse_relative_time compares with
Words ==
    [yesterday |-> <<"y", "e", "s", "t", "e", "r", "d", "a", "y">>,
     last_week |-> <<"l", "a", "s", "t", " ", "w", "e", "e", "k">>,
     last_month |-> <<"l", "a", "s", "t", " ", "m", "o", "n", "t", "h">>,
     last_year |-> <<"l", "a", "s", "t", " ", "y", "e", "a", "r">>,
     ago |-> <<"a", "g", "o">>,
     hour |-> <<"h", "o", "u", "r">>,
     minute |-> <<"m", "i", "n", "u", "t", "e">>,
     day |-> <<"d", "a", "y">>,
     week |-> <<"w", "e", "e", "k">>,
     month |-> <<"m", "o", "n", "t", "h">>,
     year |-> <<"y", "e", "a", "r">>]

Plural(w) == w \o <<"s">>

\* the keyword and the factor of a unit: [] for a unit that is not known
unit_timedelta(unit) ==
    CASE unit \in {Words.hour, Plural(Words.hour)} -> [known |-> TRUE, keyword |-> "hours", times |-> 1]
      [] unit \in {Words.minute, Plural(Words.minute)} -> [known |-> TRUE, keyword |-> "minutes", times |-> 1]
      [] unit \in {Words.day, Plural(Words.day)} -> [known |-> TRUE, keyword |-> "days", times |-> 1]
      [] unit \in {Words.week, Plural(Words.week)} -> [known |-> TRUE, keyword |-> "weeks", times |-> 1]
      [] unit \in {Words.month, Plural(Words.month)} -> [known |-> TRUE, keyword |-> "days", times |-> 30]
      [] unit \in {Words.year, Plural(Words.year)} -> [known |-> TRUE, keyword |-> "days", times |-> 365]
      [] OTHER -> [known |-> FALSE]

parse_relative_time(time_str, reference_time) ==
    LET parts == SplitWords(time_str, <<>>, <<>>)
    IN  CASE time_str = Words.yesterday -> minus_timedelta(reference_time, "days", 1)
          [] time_str = Words.last_week -> minus_timedelta(reference_time, "weeks", 1)
          [] time_str = Words.last_month -> minus_timedelta(reference_time, "days", 30)
          [] time_str = Words.last_year -> minus_timedelta(reference_time, "days", 365)
          [] OTHER ->
                IF Len(parts) >= 3 /\ parts[Len(parts)] = Words.ago
                THEN LET number == PyIntOfStr(parts[1])
                         unit == unit_timedelta(parts[2])
                     IN  IF ~number.ok THEN not_parsed(reference_time)
                         ELSE IF ~unit.known THEN not_parsed(reference_time)
                         ELSE minus_timedelta(reference_time, unit.keyword,
                                              number.n * unit.times)
                ELSE not_parsed(reference_time)

(***************************************************************************)
(* SpecParse: parse_relative_time applied to the texts and reference        *)
(* instants of the model.                                                   *)
(***************************************************************************)
Literals == {Words.yesterday, Words.last_week, Words.last_month, Words.last_year}

RecognizedUnits ==
    LET singular == {Words.hour, Words.minute, Words.day, Words.week, Words.month, Words.year}
    IN  singular \cup {Plural(u) : u \in singular}

\* the N of "<N> <unit> ago"
Numbers == {<<"0">>, <<"3">>, <<"1", "0", "0", "0", "0">>}

NUnitAgo(n, unit) == n \o <<" ">> \o unit \o <<" ">> \o Words.ago

\* texts of none of the recognized forms: an unknown unit, an N that is no
\* integer, a word between the unit and "ago", no "ago", a fraction, two
\* words, the empty text, a literal written with two spaces
OtherTexts ==
    {NUnitAgo(<<"3">>, <<"x">>), NUnitAgo(<<"x">>, Words.hour), NUnitAgo(<<"3", ".", "5">>, Plural(Words.hour)),
     <<"3">> \o <<" ">> \o Plural(Words.hour) \o <<" ">> \o <<"x">> \o <<" ">> \o Words.ago,
     <<"3">> \o <<" ">> \o Plural(Words.hour), Plural(Words.hour) \o <<" ">> \o Words.ago,
     <<>>, <<"l", "a", "s", "t">> \o <<" ">> \o <<" ">> \o <<"w", "e", "e", "k">>}

TimeStrings ==
    Literals \cup {NUnitAgo(n, u) : n \in Numbers, u \in RecognizedUnits} \cup OtherTexts

\* reference instants: around the start of 2022, at midnight and at 00:30
ReferenceTimes == {[day |-> d, min |-> m] : d \in {738000, 738001}, m \in {0, 30}}

parse_relative_time_call ==
    /\ opc = "idle"
    /\ \E time_str \in TimeStrings, reference_time \in ReferenceTimes :
        /\ op' = [name |-> "parse_relative_time", time_str |-> time_str,
                  reference_time |-> reference_time]
        /\ ret' = parse_relative_time(time_str, reference_time)
    /\ opc' = "done"
    /\ UNCHANGED <<all_rows, failed, store0, calls, mvars, store, pass_frame>>

InitPure ==
    /\ store = <<>>
    /\ nextId = 1
    /\ schema = "as_sent"
    /\ rows = <<>>
    /\ deduplicate = TRUE
    /\ UploadIdle
    /\ max_retries = 3
    /\ retry_delay = 1
    /\ ClientIdle

NextParse == parse_relative_time_call

SpecParse == InitPure /\ [][NextParse]_vars

(***************************************************************************)
(* Properties of parse_relative_time, checked under SpecParse.              *)
(***************************************************************************)
ParseDone == opc = "done" /\ op.name = "parse_relative_time"

\* the length of a unit, in days and minutes
UnitLength(unit) ==
    CASE unit \in {Words.minute, Plural(Words.minute)} -> [days |-> 0, mins |-> 1]
      [] unit \in {Words.hour, Plural(Words.hour)} -> [days |-> 0, mins |-> 60]
      [] unit \in {Words.day, Plural(Words.day)} -> [days |-> 1, mins |-> 0]
      [] unit \in {Words.week, Plural(Words.week)} -> [days |-> 7, mins |-> 0]
      [] unit \in {Words.month, Plural(Words.month)} -> [days |-> 30, mins |-> 0]
      [] unit \in {Words.year, Plural(Words.year)} -> [days |-> 365, mins |-> 0]

\* reference minus n times a length, as a day (possibly before day 0) and a
\* minute of that day
Earlier(reference, n, length) ==
    LET total == reference.min - n * length.mins
    IN  [day |-> reference.day - n * length.days + (total \div MinutesPerDay),
         min |-> total % MinutesPerDay]

Parsed(instant) == [kind |-> "tuple", result |-> instant, success |-> TRUE]

\* C18 (as claimed): for every reference instant, "yesterday", "last week",
\* "last month" and "last year" give the reference minus 1, 7, 30 and 365
\* days, and "<N> <unit> ago" gives the reference minus N times the unit (a
\* month being 30 days, a year 365), for every N >= 0 and every recognized
\* unit, always with success = True.
C18_RelativeTimes ==
    ParseDone =>
        LET t == op.time_str
            ref == op.reference_time
            OneDay == [days |-> 1, mins |-> 0]
        IN  /\ t = Words.yesterday => ret = Parsed(Earlier(ref, 1, OneDay))
            /\ t = Words.last_week => ret = Parsed(Earlier(ref, 7, OneDay))
            /\ t = Words.last_month => ret = Parsed(Earlier(ref, 30, OneDay))
            /\ t = Words.last_year => ret = Parsed(Earlier(ref, 365, OneDay))
            /\ \A n \in Numbers, u \in RecognizedUnits :
                  t = NUnitAgo(n, u)
                     => ret = Parsed(Earlier(ref, DigitsValue(n, 0), UnitLength(u)))

\* the same for the texts whose result is an instant datetime can hold
C18_HoldsInRange ==
    ParseDone =>
        LET t == op.time_str
            ref == op.reference_time
            OneDay == [days |-> 1, mins |-> 0]
        IN  /\ t = Words.yesterday => ret = Parsed(Earlier(ref, 1, OneDay))
            /\ t = Words.last_week => ret = Parsed(Earlier(ref, 7, OneDay))
            /\ t = Words.last_month => ret = Parsed(Earlier(ref, 30, OneDay))
            /\ t = Words.last_year => ret = Parsed(Earlier(ref, 365, OneDay))
            /\ \A n \in Numbers, u \in RecognizedUnits :
                  (t = NUnitAgo(n, u)
                     /\ Earlier(ref, DigitsValue(n, 0), UnitLength(u)).day >= 0)
                     => ret = Parsed(Earlier(ref, DigitsValue(n, 0), UnitLength(u)))

\* the text is "<N> <unit> ago" with N a decimal number and a recognized unit
IsNUnitAgo(t) ==
    \E k \in 1..Len(t) :
        /\ \A i \in 1..k : IsDigit(t[i])
        /\ \E u \in RecognizedUnits : SubSeq(t, k + 1, Len(t)) = <<" ">> \o u \o <<" ">> \o Words.ago

\* C19 (as claimed): for every text that is none of the four literals and not
\* "<N> <unit> ago" with a recognized unit, parse_relative_time returns
\* (reference, False), and it never raises.
C19_UnrecognizedTexts ==
    (ParseDone /\ op.time_str \notin Literals /\ ~IsNUnitAgo(op.time_str))
        => (ret.kind # "exception" /\ ret = not_parsed(op.reference_time))

\* the same for the texts of fewer than four words
C19_HoldsUpToThreeWords ==
    (ParseDone /\ op.time_str \notin Literals /\ ~IsNUnitAgo(op.time_str)
        /\ Len(SplitWords(op.time_str, <<>>, <<>>)) <= 3)
        => ret = not_parsed(op.reference_time)

(***************************************************************************)
(* process_jobs_for_baserow (src/main.py).  A float is a fraction n/d, nan  *)
(* or an infinity.  Of the normalized record the model keeps the fields     *)
(* that are computed; description, total_feedback, spent, budget, job_type, *)
(* proposals, client_info and job_details are copied by .get() like         *)
(* location and skills.                                                     *)
(***************************************************************************)
PyDict(d) == [k |-> "dict", d |-> d]

PyFloatV(n, d) == [k |-> "float", kind |-> "finite", n |-> n, d |-> d]

RECURSIVE Pow10(_)
Pow10(e) == IF e = 0 THEN 1 ELSE 10 * Pow10(e - 1)

\* float(<str>): optional sign, then digits with at most one point, or nan,
\* inf, infinity in any case; ValueError for any other text
PyFloatOfStr(s) ==
    LET t == RStrip(LStrip(s))
        signed == t # <<>> /\ Head(t) \in {"-", "+"}
        negative == signed /\ Head(t) = "-"
        body == IF signed THEN Tail(t) ELSE t
        word == [i \in 1..Len(body) |->
                    CASE body[i] = "N" -> "n" [] body[i] = "A" -> "a"
                      [] body[i] = "I" -> "i" [] body[i] = "F" -> "f" [] OTHER -> body[i]]
        points == {i \in 1..Len(body) : body[i] = "."}
        point == IF points = {} THEN Len(body) + 1 ELSE CHOOSE i \in points : TRUE
        whole == SubSeq(body, 1, point - 1)
        frac == SubSeq(body, point + 1, Len(body))
        value == DigitsValue(whole \o frac, 0)
        AllDigits(x) == \A i \in 1..Len(x) : IsDigit(x[i])
    IN  IF word = <<"n", "a", "n">> THEN [ok |-> TRUE, f |-> [k |-> "float", kind |-> "nan"]]
        ELSE IF word \in {<<"i", "n", "f">>, <<"i", "n", "f", "i", "n", "i", "t", "y">>} THEN [ok |-> TRUE, f |-> [k |-> "float", kind |-> "inf", negative |-> negative]]
        ELSE IF Cardinality(points) <= 1 /\ AllDigits(whole) /\ AllDigits(frac)
                  /\ whole \o frac # <<>>
        THEN [ok |-> TRUE,
              f |-> PyFloatV(IF negative THEN 0 - value ELSE value, Pow10(Len(frac)))]
        ELSE [ok |-> FALSE, exc |-> "ValueError"]

\* float(v): ValueError for a text that is no number, TypeError for None, a
\* list or a dict
PyFloat(v) ==
    CASE v.k = "int" -> [ok |-> TRUE, f |-> PyFloatV(v.n, 1)]
      [] v.k = "float" -> [ok |-> TRUE, f |-> v]
      [] v.k = "str" -> PyFloatOfStr(v.s)
      [] OTHER -> [ok |-> FALSE, exc |-> "TypeError"]

\* a < b on floats; every comparison with nan is False
FloatLess(a, b) ==
    CASE a.kind = "nan" \/ b.kind = "nan" -> FALSE
      [] a.kind = "inf" -> a.negative /\ ~(b.kind = "inf" /\ b.negative)
      [] b.kind = "inf" -> ~b.negative
      [] OTHER -> a.n * b.d < b.n * a.d

\* status = "scraped"; if rating > 0 and rating <= 4: status = "low_rating"
status_of_inclusive(rating) ==
    IF FloatLess(PyFloatV(0, 1), rating) /\ ~FloatLess(PyFloatV(4, 1), rating)
    THEN PyStrV(<<"l", "o", "w", "_", "r", "a", "t", "i", "n", "g">>)
    ELSE StatusScraped

\* status = "scraped"; if rating > 0 and rating < 4: status = "low_rating"
status_of(rating) ==
    IF FloatLess(PyFloatV(0, 1), rating) /\ FloatLess(rating, PyFloatV(4, 1))
    THEN PyStrV(<<"l", "o", "w", "_", "r", "a", "t", "i", "n", "g">>)
    ELSE StatusScraped

\* datetime.isoformat() of an aware UTC instant: the day, "T", the minute of
\* the day, and the offset
isoformat(t) ==
    NatDigits(t.day) \o <<"T">> \o NatDigits(t.min) \o <<"+", "0", "0", ":", "0", "0">>

\* job.get("client_info", {}).get(key, default): AttributeError when
\* client_info is no dict
client_info_get(job, key, default) ==
    LET client_info == Get(job, "client_info", PyDict(<<>>))
    IN  IF client_info.k = "dict"
        THEN [ok |-> TRUE, v |-> Get(client_info.d, key, default)]
        ELSE [ok |-> FALSE, exc |-> "AttributeError"]

\* The body of the loop: the processed job, or the exception that leaves it.
\* posted_time: parse_relative_time(job["posted_time"]); a value that is no
\* text has no .split().  job_uid: int(job["job_uid"]), 0 on ValueError or
\* TypeError.  rating: float(job.get("client_info", {}).get("rating", 0)).
process_job(job, now) ==
    LET posted_time ==
            IF "posted_time" \notin DOMAIN job
            THEN [kind |-> "exception", type |-> "KeyError"]
            ELSE IF job.posted_time.k # "str"
            THEN [kind |-> "exception", type |-> "AttributeError"]
            ELSE parse_relative_time(job.posted_time.s, now)
        job_uid ==
            IF "job_uid" \notin DOMAIN job THEN [ok |-> FALSE, exc |-> "KeyError"]
            ELSE LET n == PyInt(job.job_uid)
                 IN  [ok |-> TRUE, v |-> PyIntV(IF n.ok THEN n.n ELSE 0)]
        raw_rating == client_info_get(job, "rating", PyIntV(0))
        rating == IF raw_rating.ok THEN PyFloat(raw_rating.v) ELSE raw_rating
    IN  IF posted_time.kind = "exception" THEN [ok |-> FALSE, exc |-> posted_time.type]
        ELSE IF ~job_uid.ok THEN job_uid
        ELSE IF ~rating.ok THEN rating
        ELSE IF {"job_title", "job_url"} \ DOMAIN job # {}
        THEN [ok |-> FALSE, exc |-> "KeyError"]
        ELSE [ok |-> TRUE,
              v |-> [job_uid |-> job_uid.v,
                     job_title |-> job.job_title,
                     job_url |-> job.job_url,
                     posted_time |-> job.posted_time,
                     posted_time_date |-> PyStrV(isoformat(posted_time.result)),
                     location |-> client_info_get(job, "location", PyStrV(<<>>)).v,
                     rating |-> rating.f,
                     skills |-> PyStrV(PyStr(Get(job, "skills", PyList(<<>>)))),
                     status |-> status_of(rating.f)]]

RECURSIVE process_jobs(_, _, _)
process_jobs(jobs, now, processed_jobs) ==
    IF jobs = <<>> THEN [kind |-> "list", val |-> processed_jobs]
    ELSE LET processed_job == process_job(Head(jobs), now)
         IN  IF processed_job.ok
             THEN process_jobs(Tail(jobs), now, Append(processed_jobs, processed_job.v))
             ELSE [kind |-> "exception", type |-> processed_job.exc]

\* datetime.now(pytz.UTC) at the call
NowUtc == [day |-> 738000, min |-> 30]

(***************************************************************************)
(* SpecNorm: process_jobs_for_baserow applied to up to MaxJobs raw records. *)
(***************************************************************************)
MaxJobs == 2         \* raw records in one call of process_jobs_for_baserow

\* what the scraper found for the client: nothing, no rating, a rating text
\* (ratings below, at and above 4, zero, out of the scale, and no number)
ClientInfos ==
    {PyDict(<<>>), PyDict([location |-> PyStrV(<<"x">>)])}
      \cup {PyDict([rating |-> PyStrV(r), location |-> PyStrV(<<"x">>)]) :
                r \in {<<"4", ".", "9", "2">>, <<"3", ".", "5">>, <<"N", "/", "A">>,
                       <<"0">>, <<"4", ".", "0">>, <<"5", ".", "5">>, <<"-", "1">>,
                       <<"n", "a", "n">>}}

RawJob(job_uid, posted_time, client_info) ==
    [job_uid |-> job_uid, job_title |-> PyStrV(<<"a">>), job_url |-> PyStrV(<<"/">>),
     posted_time |-> PyStrV(posted_time), client_info |-> client_info, skills |-> Skills]

\* raw records: every job_uid with every posted_time, every client_info, and
\* a record without client_info and skills
RawJobs ==
    {RawJob(u, p, PyDict([rating |-> PyStrV(<<"4", ".", "9", "2">>), location |-> PyStrV(<<"x">>)])) :
        u \in {PyStrV(<<"1", "2">>), PyStrV(<<"x">>), PyNone},
        p \in {NUnitAgo(<<"3">>, Plural(Words.hour)), <<"x">>}}
      \cup {RawJob(PyStrV(<<"1", "2">>), NUnitAgo(<<"3">>, Plural(Words.hour)), c) : c \in ClientInfos}
      \cup {[job_uid |-> PyStrV(<<"1", "2">>), job_title |-> PyStrV(<<"a">>),
             job_url |-> PyStrV(<<"/">>), posted_time |-> PyStrV(Words.yesterday)]}

process_jobs_for_baserow_call ==
    /\ opc = "idle"
    /\ \E jobs \in SeqsUpTo(RawJobs, MaxJobs) :
        /\ op' = [name |-> "process_jobs_for_baserow", jobs |-> jobs, now |-> NowUtc]
        /\ ret' = process_jobs(jobs, NowUtc, <<>>)
    /\ opc' = "done"
    /\ UNCHANGED <<all_rows, failed, store0, calls, mvars, store, pass_frame>>

NextNorm == process_jobs_for_baserow_call

SpecNorm == InitPure /\ [][NextNorm]_vars

(***************************************************************************)
(* Properties of process_jobs_for_baserow, checked under SpecNorm.          *)
(***************************************************************************)
NormDone == opc = "done" /\ op.name = "process_jobs_for_baserow"

\* the instant of a posted_time, the reference time standing for a text that
\* cannot be parsed
InstantOf(posted_time, now) ==
    LET parsed == parse_relative_time(posted_time.s, now)
    IN  IF parsed.kind = "tuple" /\ parsed.success THEN parsed.result ELSE now

\* the rating of a raw record: 0.0 when it is missing or is no number
RatingOf(job) ==
    LET client_info == Get(job, "client_info", PyDict(<<>>))
        raw == IF client_info.k = "dict" THEN Get(client_info.d, "rating", PyNone)
               ELSE PyNone
    IN  IF PyFloat(raw).ok THEN PyFloat(raw).f ELSE PyFloatV(0, 1)

SameFloat(a, b) == ~FloatLess(a, b) /\ ~FloatLess(b, a) /\ a.kind = b.kind

\* one normalized record per raw record, in input order, with the fallbacks
NormalizedInOrder(jobs, now, records) ==
    /\ Len(records) = Len(jobs)
    /\ \A k \in 1..Len(jobs) :
          /\ records[k].posted_time = jobs[k].posted_time
          /\ records[k].posted_time_date
                = PyStrV(isoformat(InstantOf(jobs[k].posted_time, now)))
          /\ records[k].job_uid
                = PyIntV(IF PyInt(jobs[k].job_uid).ok THEN PyInt(jobs[k].job_uid).n ELSE 0)
          /\ SameFloat(records[k].rating, RatingOf(jobs[k]))

\* C20 (as claimed): for every input sequence process_jobs_for_baserow
\* returns one normalized record per raw record, in input order, with the
\* reference time for a posted_time that cannot be parsed, 0 for a job_uid
\* that is no integer and 0.0 for a rating that is missing or malformed; it
\* never fails.
C20_NormalizeNeverFails ==
    NormDone => (ret.kind = "list" /\ NormalizedInOrder(op.jobs, op.now, ret.val))

\* the same for the calls that return: the ones in which every rating that is
\* present is a number
C20_HoldsWhenItReturns ==
    (NormDone /\ ret.kind = "list") => NormalizedInOrder(op.jobs, op.now, ret.val)

C20_RaisesOnlyForARating ==
    (NormDone /\ ret.kind = "exception") =>
        /\ ret.type = "ValueError"
        /\ \E k \in 1..Len(op.jobs) :
              ~PyFloat(Get(Get(op.jobs[k], "client_info", PyDict(<<>>)).d,
                           "rating", PyIntV(0))).ok

(***************************************************************************)
(* The status and the rating of the normalized records.                    *)
(***************************************************************************)
StatusLowRating == PyStrV(<<"l", "o", "w", "_", "r", "a", "t", "i", "n", "g">>)

\* 0 < rating < 4.0 for the fraction n/d (d > 0); false for nan
StrictlyBetween0And4(rating) ==
    rating.kind = "finite" /\ rating.n > 0 /\ rating.n < 4 * rating.d

\* the rating text of a raw record, <<>> when it carries none
RatingText(job) ==
    LET raw == Get(Get(job, "client_info", PyDict(<<>>)).d, "rating", PyStrV(<<>>))
    IN  raw.s

\* C21: every normalized record has status low_rating exactly when
\* 0 < rating < 4.0 and status scraped otherwise (rating 0, exactly 4.0 and
\* above 4.0 give scraped); no record has status duplicate.
C21_StatusRule ==
    (NormDone /\ ret.kind = "list") =>
        \A k \in 1..Len(ret.val) :
            /\ ret.val[k].status
                  = IF StrictlyBetween0And4(ret.val[k].rating)
                    THEN StatusLowRating ELSE StatusScraped
            /\ ret.val[k].status # StatusDuplicate

\* a call that normalized a rating of exactly 4.0 and a rating of 3.5
C21_Witness ==
    /\ NormDone /\ ret.kind = "list" /\ Len(ret.val) = 2
    /\ RatingText(op.jobs[1]) = <<"4", ".", "0">>
    /\ ret.val[1].status = StatusScraped
    /\ RatingText(op.jobs[2]) = <<"3", ".", "5">>
    /\ ret.val[2].status = StatusLowRating

\* 0.0 <= rating <= 5.0
InRatingScale(rating) ==
    rating.kind = "finite" /\ rating.n >= 0 /\ rating.n <= 5 * rating.d

\* C22 (as claimed): every normalized record has a rating in [0.0, 5.0],
\* whatever rating text the raw record carries.
C22_RatingInScale ==
    (NormDone /\ ret.kind = "list") =>
        \A k \in 1..Len(ret.val) : InRatingScale(ret.val[k].rating)

\* what holds: the rating is float() of the text, so it is in the scale when
\* the text is
C22_RatingIsTheText ==
    (NormDone /\ ret.kind = "list") =>
        \A k \in 1..Len(ret.val) :
            RatingText(op.jobs[k]) # <<>> =>
                ret.val[k].rating = PyFloatOfStr(RatingText(op.jobs[k])).f

(***************************************************************************)
(* Records with job_uid 0 in upload_multiple_rows, checked under Spec.      *)
(***************************************************************************)
\* the record carries the fallback job_uid of process_jobs_for_baserow
ZeroJobUid(row) ==
    deduplication_field \in DOMAIN row /\ row[deduplication_field] = PyIntV(0)

\* the job_uid of a stored row is the integer 0, or the row has no job_uid
ReadsAsZero(existing_row) ==
    \/ deduplication_field \notin DOMAIN existing_row
    \/ LET n == PyInt(existing_row[deduplication_field]) IN n.ok /\ n.n = 0

\* C23 (as claimed): a record whose job_uid is 0 is never skipped as a
\* duplicate, whatever rows the snapshot holds, including rows with job_uid 0
\* or with no job_uid.
C23_ZeroJobUidNeverSkipped ==
    \A k \in 1..Len(decisions) : ZeroJobUid(rows[k]) => decisions[k] # "skip"

\* what holds: such a record is skipped exactly when the snapshot holds a row
\* whose job_uid is 0 or that has no job_uid
C23_ZeroJobUidSkippedOnZeroRow ==
    deduplicate =>
        \A k \in 1..Len(decisions) :
            ZeroJobUid(rows[k]) =>
                ((decisions[k] = "skip")
                    <=> \E j \in 1..Len(existing_rows) : ReadsAsZero(existing_rows[j]))

(***************************************************************************)
(* BaserowService.__init__.  The environment is what os.getenv() returns    *)
(* for each name: None for a name that is not set.                          *)
(***************************************************************************)
\* a or b
PyOr(a, b) == IF Falsy(a) THEN b ELSE a

default_base_url ==
    PyStrV(<<"h", "t", "t", "p", "s", ":", "/", "/", "a", "p", "i", ".", "b", "a", "s",
             "e", "r", "o", "w", ".", "i", "o", "/", "a", "p", "i", "/", "d", "a", "t",
             "a", "b", "a", "s", "e", "/", "r", "o", "w", "s", "/", "t", "a", "b", "l",
             "e">>)

\* __init__ without the check of table_id
BaserowService_init_unchecked_table(args, env) ==
    LET api_key == PyOr(args.api_key, env.BASEROW_API_KEY)
        table_id == PyOr(args.table_id, env.BASEROW_TABLE_ID)
    IN  IF Falsy(api_key) THEN [kind |-> "exception", type |-> "ValueError"]
        ELSE [kind |-> "object",
              self |-> [api_key |-> api_key, table_id |-> table_id,
                        base_url |-> PyOr(args.base_url, default_base_url),
                        max_retries |-> args.max_retries,
                        retry_delay |-> args.retry_delay]]

\* the object __init__ leaves, or the exception it raises
BaserowService_init(args, env) ==
    LET api_key == PyOr(args.api_key, env.BASEROW_API_KEY)
        table_id == PyOr(args.table_id, env.BASEROW_TABLE_ID)
    IN  IF Falsy(api_key) THEN [kind |-> "exception", type |-> "ValueError"]
        ELSE IF Falsy(table_id) THEN [kind |-> "exception", type |-> "ValueError"]
        ELSE [kind |-> "object",
              self |-> [api_key |-> api_key, table_id |-> table_id,
                        base_url |-> PyOr(args.base_url, default_base_url),
                        max_retries |-> args.max_retries,
                        retry_delay |-> args.retry_delay]]

\* an argument or an environment value: absent, empty, or a text
Settings == {PyNone, PyStrV(<<>>), PyStrV(<<"k">>)}

\* BaserowService(api_key, table_id, base_url, max_retries, retry_delay)
BaserowService_call ==
    /\ opc = "idle"
    /\ \E api_key \in Settings, table_id \in Settings \cup {PyStrV(<<"7">>)},
          base_url \in {PyNone, PyStrV(<<"u">>)},
          env_api_key \in Settings, env_table_id \in Settings,
          retries \in {0, 3}, delay \in {1, 3} :
        LET args == [api_key |-> api_key, table_id |-> table_id, base_url |-> base_url,
                     max_retries |-> retries, retry_delay |-> delay]
            env == [BASEROW_API_KEY |-> env_api_key, BASEROW_TABLE_ID |-> env_table_id]
            made == BaserowService_init(args, env)
        IN  /\ op' = [name |-> "BaserowService", args |-> args, env |-> env]
            /\ ret' = made
            /\ IF made.kind = "object"
               THEN max_retries' = retries /\ retry_delay' = delay
               ELSE UNCHANGED cfgvars
    /\ suspended' = suspended
    /\ opc' = "done"
    /\ UNCHANGED <<all_rows, failed, store0, calls, mvars, store, nextId, schema, page,
                   requested, responses, rvars, rows, deduplicate, existing_rows,
                   created_rows, idx, pc, callNo, results, decisions>>

NextInit == BaserowService_call

(***************************************************************************)
(* SpecInit: one construction of the client, from every combination of      *)
(* arguments and environment.                                               *)
(***************************************************************************)
SpecInit == InitPure /\ [][NextInit]_vars

InitDone == opc = "done" /\ op.name = "BaserowService"

\* neither passed nor in the environment
Missing(arg, env_value) == arg = PyNone /\ env_value = PyNone

\* no request was sent: no attempt of the retry wrapper, no page requested, no
\* store call, and the store is as it was
NoNetworkRequest ==
    /\ attemptLog = <<>> /\ attempts = 0 /\ rpc = "idle"
    /\ requested = <<>> /\ calls = <<>>
    /\ store = store0

\* C24: constructing the client without an API key or without a table id
\* (neither passed nor in the environment) raises an error, before any
\* network request is made, and produces no client object.
C24_ConstructorRejects ==
    (InitDone /\ (\/ Missing(op.args.api_key, op.env.BASEROW_API_KEY)
                  \/ Missing(op.args.table_id, op.env.BASEROW_TABLE_ID)))
        => (ret = [kind |-> "exception", type |-> "ValueError"] /\ NoNetworkRequest)

\* a construction with an API key and no table id
C24_Witness ==
    /\ InitDone
    /\ op.args.api_key = PyStrV(<<"k">>)
    /\ Missing(op.args.table_id, op.env.BASEROW_TABLE_ID)
    /\ ret.kind = "exception"

(***************************************************************************)
(* The snapshot of upload_multiple_rows, checked under Spec.                *)
(***************************************************************************)
ListCalls == {c \in 1..Len(calls) : calls[c].op = "list"}

\* the snapshot has been fetched or given up in the current call
PastFetch == pc \in {"loop", "done"} /\ callNo > 0 /\ rows # <<>>

\* C25: within one upload call the snapshot is fetched exactly once, before
\* the first create; every skip decision uses only that snapshot and not the
\* rows created earlier in the same call: a batch holding two records with
\* the same job_uid against a store without that job_uid gives two creates.
C25_SnapshotFetchedOnce ==
    /\ Cardinality(ListCalls) = (IF deduplicate /\ PastFetch THEN 1 ELSE 0)
    /\ ListCalls \subseteq {1}
    /\ existing_rows \in {store0, <<>>}
    /\ (deduplicate /\ PastFetch) =>
          \A k \in 1..Len(decisions) :
              (decisions[k] = "skip")
                 <=> (calls[1].ok /\ \E j \in 1..Len(store0) : C3_Matches(store0[j], rows[k]))
    /\ (deduplicate /\ Finished /\ Len(rows) = 2 /\ rows[1] = rows[2]
          /\ \A j \in 1..Len(store0) : ~C3_Matches(store0[j], rows[1]))
        => decisions = <<"create", "create">>

\* two records with job_uid 1 uploaded to a store holding other rows: both
\* are created
C25_Witness ==
    /\ Finished /\ deduplicate /\ ~failed /\ callNo = 1
    /\ store0 # <<>> /\ existing_rows = store0
    /\ Len(rows) = 2 /\ rows[1] = rows[2]
    /\ deduplication_field \in DOMAIN rows[1] /\ rows[1][deduplication_field] = PyIntV(1)
    /\ decisions = <<"create", "create">>
    /\ Len(store) = Len(store0) + 2

(***************************************************************************)
(* upload_multiple_rows after a failed snapshot fetch, checked under Spec.  *)
(***************************************************************************)
FetchFailed == deduplicate /\ PastFetch /\ ~calls[1].ok

\* C27: when the snapshot fetch fails, upload does not stop: it continues
\* with an empty snapshot, makes no duplicate check, and attempts to create
\* every record of the batch, including records whose job_uid is stored.
C27_FailedFetchCreatesAll ==
    FetchFailed =>
        /\ existing_rows = <<>>
        /\ \A k \in 1..Len(decisions) : decisions[k] = "create"
        /\ Len(CreateCalls) = Len(decisions)
        /\ \A c \in 1..Len(CreateCalls) : CreateCalls[c].i = c
        /\ Finished => Len(decisions) = Len(rows)

\* the fetch failed over a table that held the job_uid of the first record,
\* and the record was created again
C27_Witness ==
    /\ FetchFailed /\ Finished
    /\ \E j \in 1..Len(store0) : C3_Matches(store0[j], rows[1])
    /\ Len(CreateCalls) = Len(rows)
    /\ CreateCalls[1].ok
    /\ Len(store) > Len(store0)

(***************************************************************************)
(* The deletes of delete_duplicates, checked under SpecDel.                 *)
(***************************************************************************)
\* the ids the pass has asked the server to delete so far
DeleteTargets == {calls[c].id : c \in {c \in 1..Len(calls) : calls[c].op = "delete"}}

InPass == op.name = "delete_duplicates"

PassDone == opc = "done" /\ op.name = "delete_duplicates"

\* C28: delete_duplicates never deletes a row whose job_uid occurs only once
\* in the table it listed, and of every duplicated job_uid at least one row
\* is never the target of a delete, whatever keep_newest is and whichever
\* deletes fail.
C28_KeepsOnePerJobUid ==
    InPass =>
        \A r \in SeqToSet(store0) :
            /\ ~Duplicated(r) => (r.id \notin DeleteTargets /\ r \in SeqToSet(store))
            /\ \E x \in GroupOf(r) : x.id \notin DeleteTargets /\ x \in SeqToSet(store)

\* a finished pass over a duplicated job_uid and a single row, in which a
\* delete failed and another succeeded
C28_Witness ==
    /\ PassDone
    /\ \E r \in SeqToSet(store0) : ~Duplicated(r)
    /\ \E c, d \in 1..Len(calls) : calls[c].ok /\ ~calls[d].ok
    /\ Cardinality(DeleteTargets) >= 2

\* C29 (as claimed): the number delete_duplicates returns is the number of
\* rows the call removed from the table, for every outcome of the deletes and
\* of the sort of each group, including a pass an error interrupts after
\* some rows were deleted.
C29_ReturnsRowsRemoved ==
    PassDone => (ret.kind = "int" /\ ret.val = Len(store0) - Len(store))

\* what holds: the count is right for the passes no sort interrupts
C29_HoldsWhenNotInterrupted ==
    (PassDone /\ duplicates = <<>>) =>
        (ret.kind = "int" /\ ret.val = Len(store0) - Len(store))

\* an interrupted pass returns 0, whatever it deleted before
C29_InterruptedReturnsZero ==
    (PassDone /\ duplicates # <<>>) => ret = [kind |-> "int", val |-> 0]

(***************************************************************************)
(* Two pipeline runs (src/main.py, main) against one table.  Each run is a  *)
(* process of its own: the steps of the two upload calls interleave at      *)
(* every store call.  The upload variables are those of the run that takes  *)
(* the next step; the other run's are kept in suspended.                    *)
(***************************************************************************)
\* the local state of the upload call of the running process
RunState ==
    [rows |-> rows, deduplicate |-> deduplicate, existing_rows |-> existing_rows,
     created_rows |-> created_rows, idx |-> idx, pc |-> pc, callNo |-> callNo,
     results |-> results, store0 |-> store0, calls |-> calls,
     decisions |-> decisions, failed |-> failed]

\* the scheduler: the other process takes the next steps
switch_run ==
    /\ opc = "idle"
    /\ suspended # <<>>
    /\ Head(suspended).pc # "done"
    /\ LET other == Head(suspended)
       IN  /\ rows' = other.rows
           /\ deduplicate' = other.deduplicate
           /\ existing_rows' = other.existing_rows
           /\ created_rows' = other.created_rows
           /\ idx' = other.idx
           /\ pc' = other.pc
           /\ callNo' = other.callNo
           /\ results' = other.results
           /\ store0' = other.store0
           /\ calls' = other.calls
           /\ decisions' = other.decisions
           /\ failed' = other.failed
    /\ suspended' = Append(Tail(suspended), RunState)
    /\ UNCHANGED <<svars, cfgvars, mvars, ovars, lvars, rvars>>

\* every upload call has returned
UploadsDone == pc = "done" /\ \A k \in 1..Len(suspended) : suspended[k].pc = "done"

\* the normalized records of a run: job_uid and the posted_time_date of the
\* run's clock
RunRecords(date) ==
    {[job_uid |-> PyIntV(u), posted_time_date |-> PyStrV(date)] : u \in {1, 2}}

MaxRunBatch == 1     \* records in the batch of each of the two runs

RunBatches(date) == SeqsUpTo(RunRecords(date), MaxRunBatch) \ {<<>>}

\* the table before the runs: empty, one row of another job, or two rows of
\* another job of which one has no posted_time_date
RunStores ==
    {<<>>,
     <<[id |-> 1, job_uid |-> PyIntV(3), posted_time_date |-> PyStrV(<<"1">>)]>>,
     <<[id |-> 1, job_uid |-> PyIntV(3), posted_time_date |-> PyStrV(<<"1">>)],
       [id |-> 2, job_uid |-> PyIntV(3), posted_time_date |-> PyNone]>>}

InitRuns ==
    /\ store \in RunStores
    /\ nextId = Len(store) + 1
    /\ schema = "as_sent"
    /\ rows \in RunBatches(<<"2">>)
    /\ deduplicate = TRUE
    /\ existing_rows = <<>>
    /\ created_rows = <<>>
    /\ idx = 1
    /\ pc = "init"
    /\ callNo = 0
    /\ results = <<>>
    /\ store0 = store
    /\ calls = <<>>
    /\ decisions = <<>>
    /\ failed = FALSE
    /\ suspended \in
          {<<[rows |-> batch, deduplicate |-> TRUE, existing_rows |-> <<>>,
              created_rows |-> <<>>, idx |-> 1, pc |-> "init", callNo |-> 0,
              results |-> <<>>, store0 |-> <<>>, calls |-> <<>>, decisions |-> <<>>,
              failed |-> FALSE]>> : batch \in RunBatches(<<"1", "0">>)}
    /\ max_retries = 3
    /\ retry_delay = 1
    /\ ClientIdle

\* each run uploads one batch; manage_duplicates.py runs delete_duplicates
\* after both
NextRuns ==
    \/ callNo = 0 /\ upload_multiple_rows_call
    \/ upload_fetch_existing
    \/ upload_skip_row
    \/ upload_add_row
    \/ upload_return
    \/ switch_run
    \/ UploadsDone /\ delete_duplicates_call
    \/ delete_duplicates_next_group
    \/ delete_duplicates_delete_row
    \/ delete_duplicates_return

SpecRuns == InitRuns /\ [][NextRuns]_vars

(***************************************************************************)
(* Properties of two concurrent runs, checked under SpecRuns.               *)
(***************************************************************************)
\* the run created a row for job_uid 1
CreatedJobUid1(created) ==
    \E k \in 1..Len(created) : created[k][deduplication_field] = PyIntV(1)

\* C26 (as claimed): two runs that upload a record with the same job_uid
\* concurrently can both create a row for it, when the snapshot of the second
\* is fetched before the create of the first; a later delete_duplicates pass
\* in which the listing and every delete succeed leaves one row for that
\* job_uid.
C26_PassRepairsTheRace ==
    (PassDone /\ ~failed /\ CreatedJobUid1(created_rows)
        /\ CreatedJobUid1(Head(suspended).created_rows))
    => Cardinality({k \in 1..Len(store) : store[k][deduplication_field] = PyIntV(1)}) = 1

\* a reachable state: both runs fetched the table before either created its
\* row for job_uid 1, both created it, and the pass removed one of the two
\* rows
C26_RaceRepaired ==
    /\ PassDone /\ ~failed
    /\ existing_rows # <<>>
    /\ Head(suspended).existing_rows = existing_rows
    /\ CreatedJobUid1(created_rows)
    /\ CreatedJobUid1(Head(suspended).created_rows)
    /\ Cardinality({k \in 1..Len(store0) : store0[k][deduplication_field] = PyIntV(1)}) = 2
    /\ Cardinality({k \in 1..Len(store) : store[k][deduplication_field] = PyIntV(1)}) = 1

\* what holds: the pass leaves one row per job_uid when no group of the table
\* mixes a null and a text posted_time_date
C26_RepairsWhenDatesAreOrdered ==
    (PassDone /\ ~failed
        /\ \A g \in 1..Len(duplicates) : ~sort_raises(duplicates[g].rows))
    => \A r \in SeqToSet(store0) :
            Cardinality(GroupOf(r) \cap SeqToSet(store)) = 1

(***************************************************************************)
(* Termination of get_all_rows.  SpecClientFair adds to SpecClient that a   *)
(* step that can be taken is taken: an attempt is answered or raises, a     *)
(* sleep ends, the coroutine is resumed.                                    *)
(***************************************************************************)
SpecClientFair == SpecClient /\ WF_vars(NextClient)

ListingRuns == opc = "running" /\ op.name = "get_all_rows"

ListingDone == opc = "done" /\ op.name = "get_all_rows"

\* C30: get_all_rows terminates: it requests at most one page per full page
\* of the table plus one, tries each page at most max_retries times, and a
\* call that was started returns, also when a page fails.
C30_ListAllTerminates ==
    /\ [](op.name = "get_all_rows" =>
            /\ Len(requested) <= (Len(store) \div size) + 1
            /\ Len(attemptLog) <= max_retries)
    /\ (ListingRuns ~> ListingDone)

\* a listing that ended on a page whose attempts all failed, after a page
\* that was read
C30_Witness ==
    /\ ListingDone /\ rpc = "raised"
    /\ Len(requested) = 2
    /\ Len(attemptLog) = max_retries /\ max_retries >= 2

====
